---- MODULE Spec2Model ----
(***************************************************************************)
(* Log-ingestion pipeline: the tailing producer (file-state store,         *)
(* multi-line stitching, batching into the broker) and the indexing        *)
(* consumer (broker fetch, bulk index, offset commit).                     *)
(*                                                                         *)
(* Strings of the program are sequences of one-character strings.  In a    *)
(* log file the byte "H" stands for a complete header prefix               *)
(* (`YY/MM/DD HH:MM:SS LEVEL component:`), so a line is a header exactly   *)
(* when it begins with "H"; every other byte is ordinary text.  Wall-clock *)
(* timestamps of entries are left out.                                     *)
(***************************************************************************)
EXTENDS Integers, Sequences, FiniteSets, TLC

VARIABLES
    \* tailing producer
    files,        \* disk: log file path -> content (sequence of bytes)
    stateFile,    \* disk: content of the state file
    tmpFile,      \* disk: content of the sibling <path>.tmp
    processLock,  \* logProducerService.processLock (TRUE = held)
    pc,           \* per ProcessLogs invocation: position in the handler
    result,       \* per ProcessLogs invocation: what its last call returned
    cyc,          \* local variables of the invocation that took the lock last
    covered,      \* history: per file, the byte positions (1-based) lying in the
                  \* raw text of an entry that was passed to Produce
    \* indexing consumer
    topic,        \* broker: the messages of the partition, by offset 1, 2, ...
    readerPos,    \* kafka.Reader: offset of the next message FetchMessage returns
    committed,    \* broker: highest offset committed for the consumer group
    indexed,      \* offsets of the messages whose entry the bulk indexer accepted
    searchIndex,  \* search index: offsets of the messages whose document it holds
    ctxDone,      \* the consumer's context is cancelled
    cpc,          \* position of the consumer goroutine in Run / processBatch
    batch,        \* locals of processBatch
    calls,        \* the calls the current iteration made on the stores and the broker
    lastErr,      \* what the last processBatch returned
    storeFailed,  \* history: offsets of messages of a batch whose StoreLogs failed
    wait,         \* the clock of a batch build: the configured max batch wait,
                  \* logConsumerService.maxWaitTime, the time since batchStartTime,
                  \* the messages held; (history) the timeout given to each fetch
    \* scheduler
    sched,        \* cron: "running" after Start, "stopped" after Stop
    jobs,         \* cron: the ticks whose job function is executing
    stopHook,     \* the OnStop hook: its position, and (history) the invocations
                  \* that were inside a cycle when it returned
    \* broker producer
    produce,      \* a call of Produce: its batch, what it passed to the writer,
                  \* what it returned
    writer,       \* kafka.Writer and the broker: messages queued, written, lost
    \* natural-language query service
    convos,       \* inMemoryConversationStore.store: conversation id -> turns
    nl,           \* the last request served: its inputs, what the handler resolved
                  \* and answered; (history) requests analysed per conversation
    handlers,     \* the requests being served concurrently: each one's position
                  \* in ProcessNaturalLanguageQuery and its locals; (history) per
                  \* conversation, the request that wrote each turn, and the
                  \* conversation ids that responses carried
    \* HTTP query endpoints
    http,         \* the last query request served: endpoint, query parameters, what the
                  \* store answered, the status written
    \* metric extractor
    extracted,    \* the last call of ExtractMetricEvents: its argument and result
    \* file-state manager called on its own
    mgr,          \* the mapping of the last successful SaveState, and the last call:
                  \* its kind and what it returned
    \* time-series store and its repository
    tsdb,         \* the rows of the metric events table, the last time-series query
                  \* and its response
    \* log search
    search,       \* the last call of SearchLogs: the request, the query the repository
                  \* built, the hit total of the index and the response
    \* LLM service
    llm           \* the last call of AnalyzeQueryWithHistory: the response text, what
                  \* was extracted and decoded, and what the orchestrator answered

producerVars ==
    <<files, stateFile, tmpFile, processLock, pc, result, cyc, covered>>

consumerVars ==
    <<topic, readerPos, committed, indexed, searchIndex, ctxDone, cpc, batch, calls,
      lastErr,
      storeFailed, wait>>

schedulerVars == <<sched, jobs, stopHook>>

brokerVars == <<produce, writer>>

nlVars == <<convos, nl, handlers>>

queryVars == <<http>>

extractorVars == <<extracted>>

managerVars == <<mgr>>

\* the query layer called on its own
storeVars == <<tsdb, search, llm>>

vars ==
    <<producerVars, consumerVars, schedulerVars, brokerVars, nlVars, queryVars,
      extractorVars, managerVars, storeVars>>

----------------------------------------------------------------------------
(* Bounds *)

MaxBytes == 2
TickBytes == 1
ReadLen == 5
MaxMsgs == 3
MaxBatch == 2
MaxRequests == 2
MaxEvents == 2
MaxText == 5
DispatchLen == 3
SplitLen == 3

(* Configuration *)

BatchSize == 2

----------------------------------------------------------------------------
(* Strings *)

NL == "\n"
CR == "\r"
Alphabet == {"H", "x", NL}
Whitespace == {" ", "\t", NL, CR}

Max(a, b) == IF a >= b THEN a ELSE b

SeqsUpTo(S, n) == UNION {[1..k -> S] : k \in 0..n}

HasPrefix(s, p) ==
    /\ Len(s) >= Len(p)
    /\ SubSeq(s, 1, Len(p)) = p

RECURSIVE TrimLeft(_)
TrimLeft(s) ==
    IF s # <<>> /\ Head(s) \in Whitespace THEN TrimLeft(Tail(s)) ELSE s

RECURSIVE TrimRight(_)
TrimRight(s) ==
    IF s # <<>> /\ s[Len(s)] \in Whitespace
    THEN TrimRight(SubSeq(s, 1, Len(s) - 1))
    ELSE s

TrimSpace(s) == TrimRight(TrimLeft(s))

----------------------------------------------------------------------------
(* Log files and their paths.  A path is its parent directory name and its *)
(* file name, each a sequence of tokens.                                   *)

File1 == [dir |-> <<"application", "_", "1">>, name |-> <<"c1", ".log">>]
File2 == [dir |-> <<"applicationx">>, name |-> <<"c2", ".log">>]

\* two more names a file system allows: one holds the byte 0xFF, which is not
\* valid UTF-8, the other the character U+FFFD
FileFF == [dir |-> <<"application", "_", "1">>, name |-> <<"c", "0xFF", ".log">>]
FileFFFD == [dir |-> <<"application", "_", "1">>, name |-> <<"c", "U+FFFD", ".log">>]

Paths == {File1, File2}

\* an extraction that takes the parent directory's name whatever it is
ExtractApplicationIDAnyDir(filePath) == filePath.dir

ExtractApplicationID(filePath) ==
    IF HasPrefix(filePath.dir, <<"application", "_">>)
    THEN filePath.dir
    ELSE <<"unknown_application">>

\* os.ReadDir lists by name: application_1/c1.log, applicationx/c2.log
findLogFiles == <<File1, File2>>

----------------------------------------------------------------------------
(* File-state store: the state file holds a JSON object path -> offset.   *)
(* A document is the key-sorted sequence of its <<path, offset>> members.  *)

Absent == [kind |-> "absent", doc |-> <<>>]
Empty == [kind |-> "empty", doc |-> <<>>]
Partial == [kind |-> "partial", doc |-> <<>>]
Json(d) == [kind |-> "json", doc |-> d]

EmptyState == [p \in {} |-> 0]

\* Go map read: a missing key reads as the zero value
Get(state, filePath) ==
    IF filePath \in DOMAIN state THEN state[filePath] ELSE 0

Put(state, filePath, offset) ==
    [p \in DOMAIN state \cup {filePath} |->
        IF p = filePath THEN offset ELSE state[p]]

\* the paths in byte order
SortedPaths == <<File1, FileFFFD, FileFF, File2>>

\* a JSON string is valid UTF-8: the encoder writes U+FFFD for a byte that is not
ToValidUTF8(str) ==
    [j \in DOMAIN str |-> IF str[j] = "0xFF" THEN "U+FFFD" ELSE str[j]]

JsonKey(filePath) ==
    [dir |-> ToValidUTF8(filePath.dir), name |-> ToValidUTF8(filePath.name)]

RECURSIVE MarshalFrom(_, _)
MarshalFrom(state, k) ==
    IF k > Len(SortedPaths) THEN <<>>
    ELSE IF SortedPaths[k] \in DOMAIN state
         THEN <<(<<JsonKey(SortedPaths[k]), state[SortedPaths[k]]>>)>>
                  \o MarshalFrom(state, k + 1)
         ELSE MarshalFrom(state, k + 1)

\* json.MarshalIndent of a map: members in key order
Marshal(state) == MarshalFrom(state, 1)

\* json.Unmarshal into a map: one entry per member, the last one wins
Unmarshal(d) ==
    [p \in {d[j][1] : j \in DOMAIN d} |->
        d[CHOOSE j \in DOMAIN d :
            /\ d[j][1] = p
            /\ \A l \in DOMAIN d : d[l][1] = p => l <= j][2]]

\* LoadState: [state, err]
LoadState(content, readFails) ==
    IF content.kind = "absent" THEN [state |-> EmptyState, err |-> FALSE]
    ELSE IF readFails THEN [state |-> EmptyState, err |-> TRUE]
    ELSE IF content.kind = "empty" THEN [state |-> EmptyState, err |-> FALSE]
    ELSE IF content.kind = "partial" THEN [state |-> EmptyState, err |-> TRUE]
    ELSE [state |-> Unmarshal(content.doc), err |-> FALSE]

----------------------------------------------------------------------------
(* Multi-line parser and the per-file reader *)

DropCR(line) ==
    IF line # <<>> /\ line[Len(line)] = CR
    THEN SubSeq(line, 1, Len(line) - 1)
    ELSE line

\* bufio.ScanLines over the bytes that follow the seek position
RECURSIVE ScanFrom(_, _, _)
ScanFrom(data, k, cur) ==
    IF k > Len(data)
    THEN IF cur = <<>> THEN <<>> ELSE <<DropCR(cur)>>
    ELSE IF data[k] = NL
         THEN <<DropCR(cur)>> \o ScanFrom(data, k + 1, <<>>)
         ELSE ScanFrom(data, k + 1, Append(cur, data[k]))

ScanLines(data) == ScanFrom(data, 1, <<>>)

ParseHeader(line) ==
    IF line # <<>> /\ Head(line) = "H"
    THEN [isHeader |-> TRUE, Level |-> "INFO", Component |-> "comp",
          InitialContent |-> TrimSpace(Tail(line))]
    ELSE [isHeader |-> FALSE, Level |-> "", Component |-> "",
          InitialContent |-> <<>>]

NoEntry == [none |-> TRUE]

\* `at` is not a field of model.LogEntry: it records the file offset of the
\* first byte of Raw, for the history variable `covered`.
LogEntry(level, component, content, raw, filePath, at) ==
    [Level |-> level, Component |-> component, Content |-> content, Raw |-> raw,
     Application |-> ExtractApplicationID(filePath), SourceFile |-> filePath,
     at |-> at]

\* a stitcher that resets the entry under construction without keeping it
finalizeEntryDropped(currentEntry, entries) == entries

finalizeEntry(currentEntry, entries) ==
    IF currentEntry # NoEntry THEN Append(entries, currentEntry) ELSE entries

RECURSIVE StitchFrom(_, _, _, _, _, _)
StitchFrom(lines, k, currentEntry, entries, currentOffset, filePath) ==
    IF k > Len(lines)
    THEN [entries |-> finalizeEntry(currentEntry, entries), offset |-> currentOffset]
    ELSE LET line == lines[k]
             lineOffset == Len(line) + 1
             headerInfo == ParseHeader(line)
         IN  IF headerInfo.isHeader
             THEN StitchFrom(lines, k + 1,
                      LogEntry(headerInfo.Level, headerInfo.Component,
                               headerInfo.InitialContent, line, filePath, currentOffset),
                      finalizeEntry(currentEntry, entries),
                      currentOffset + lineOffset, filePath)
             ELSE IF currentEntry # NoEntry
                  THEN StitchFrom(lines, k + 1,
                           [currentEntry EXCEPT !.Content = @ \o <<NL>> \o line,
                                                !.Raw = @ \o <<NL>> \o line],
                           entries, currentOffset + lineOffset, filePath)
                  ELSE StitchFrom(lines, k + 1, NoEntry,
                           Append(entries,
                               LogEntry("UNKNOWN", "ORPHAN", line, line, filePath, currentOffset)),
                           currentOffset + lineOffset, filePath)

FileOutcomes == {"ok", "open_err", "read_err"}

\* The offset the read starts from: the stored one, or 0 when the file is shorter
SeekOffset(state, filePath, data) ==
    IF Len(data) < Get(state, filePath) THEN 0 ELSE Get(state, filePath)

\* processSingleFileMultiline: [lines, newOffset, entries, err]
\* ("open_err": open, stat or seek fails; "read_err": the scanner ends with an error)
processSingleFileMultiline(filePath, state, data, outcome) ==
    LET lastOffset == SeekOffset(state, filePath, data)
        lines == ScanLines(SubSeq(data, lastOffset + 1, Len(data)))
        r == StitchFrom(lines, 1, NoEntry, <<>>, lastOffset, filePath)
    IN  IF outcome = "open_err"
        THEN [lines |-> <<>>, newOffset |-> Get(state, filePath), entries |-> <<>>,
              err |-> TRUE]
        ELSE [lines |-> lines, newOffset |-> r.offset, entries |-> r.entries,
              err |-> (outcome = "read_err")]

\* the lines the scanner returns from the seek position to the end of the file
LinesToScan(filePath, state, data) ==
    ScanLines(SubSeq(data, SeekOffset(state, filePath, data) + 1, Len(data)))

\* a reader that looks at ctx only after it has parsed the line
processSingleFileCancelledLate(filePath, state, data, k) ==
    LET lastOffset == SeekOffset(state, filePath, data)
        lines == LinesToScan(filePath, state, data)
        r == StitchFrom(SubSeq(lines, 1, k), 1, NoEntry, <<>>, lastOffset, filePath)
    IN  [lines |-> SubSeq(lines, 1, k), newOffset |-> r.offset, entries |-> r.entries,
         err |-> TRUE]

\* processSingleFileMultiline when ctx.Done() is first seen closed after the
\* k-th line was scanned: the lines before it were parsed, the entry under
\* construction is finalized, linesRead counts the k-th line, currentOffset
\* does not: [lines, newOffset, entries, err]
processSingleFileCancelled(filePath, state, data, k) ==
    LET lastOffset == SeekOffset(state, filePath, data)
        lines == LinesToScan(filePath, state, data)
        r == StitchFrom(SubSeq(lines, 1, k - 1), 1, NoEntry, <<>>, lastOffset, filePath)
    IN  [lines |-> SubSeq(lines, 1, k), newOffset |-> r.offset, entries |-> r.entries,
         err |-> TRUE]

----------------------------------------------------------------------------
(* Tailing producer: ProcessLogs, one invocation per scheduler tick *)

\* two ticks of the scheduler, which may overlap
Invocations == {"tick1", "tick2"}

NoReads == [p \in {} |-> 0]

\* The locals of ProcessLogs.  Only an invocation that holds processLock has
\* any, so one record is kept, owned by the invocation that took the lock last;
\* it lasts until that invocation's goroutine ends or the lock is taken again.
\* `reads` keeps, per file read in the cycle, what the reader saw and returned.
\* `batches` keeps the batches sendBatch was called with, in call order.
\* `cancelled` tells that the ctx of the invocation was seen cancelled.
NoLocals ==
    [owner |-> "none", currentState |-> EmptyState, newState |-> EmptyState,
     fileIdx |-> 0, allLogs |-> <<>>, reads |-> NoReads, failedFiles |-> {},
     batches |-> <<>>, cancelled |-> FALSE]

Returned == {"skipped", "failed", "done"}
InCycle == {"load", "files", "save", "write", "rename"}

\* positions of a file lying in the raw text of the entries of a batch
RawPositions(entries, filePath) ==
    UNION {(entries[j].at + 1)..(entries[j].at + Len(entries[j].Raw)) :
              j \in {l \in DOMAIN entries : entries[l].SourceFile = filePath}}

Handed(entries) ==
    [p \in Paths |-> covered[p] \cup RawPositions(entries, p)]

SourceFiles(entries) == {entries[j].SourceFile : j \in DOMAIN entries}

\* an entry into ProcessLogs that does not look at the lock
TryLockIgnored(i) ==
    /\ pc[i] = "idle"
    /\ processLock' = TRUE
    /\ pc' = [pc EXCEPT ![i] = "load"]
    /\ result' = [result EXCEPT ![i] = "none"]
    /\ cyc' = [NoLocals EXCEPT !.owner = i]
    /\ UNCHANGED <<files, stateFile, tmpFile, covered>>

\* A tick of the scheduler starts a goroutine that calls ProcessLogs, which
\* begins with processLock.TryLock()
TryLock(i) ==
    /\ pc[i] = "idle"
    /\ IF processLock
       THEN /\ pc' = [pc EXCEPT ![i] = "skipped"]
            /\ result' = [result EXCEPT ![i] = "nil"]
            /\ UNCHANGED <<processLock, cyc>>
       ELSE /\ processLock' = TRUE
            /\ pc' = [pc EXCEPT ![i] = "load"]
            /\ result' = [result EXCEPT ![i] = "none"]
            /\ cyc' = [NoLocals EXCEPT !.owner = i]
    /\ UNCHANGED <<files, stateFile, tmpFile, covered>>

\* ProcessLogs has returned and the goroutine of the tick ends
Return(i) ==
    /\ pc[i] \in Returned
    /\ pc' = [pc EXCEPT ![i] = "idle"]
    /\ result' = [result EXCEPT ![i] = "none"]
    /\ cyc' = IF cyc.owner = i THEN NoLocals ELSE cyc
    /\ UNCHANGED <<files, stateFile, tmpFile, processLock, covered>>

\* ProcessLogs: LoadState, copy into newState, findLogFiles
LoadAndFind(i, io) ==
    /\ pc[i] = "load"
    /\ LET l == LoadState(stateFile, io = "read_err")
       IN  IF l.err \/ io = "find_err"
           THEN /\ pc' = [pc EXCEPT ![i] = "failed"]
                /\ result' = [result EXCEPT ![i] = "err"]
                /\ processLock' = FALSE
                /\ UNCHANGED cyc
           ELSE /\ pc' = [pc EXCEPT ![i] = "files"]
                /\ cyc' = [cyc EXCEPT !.currentState = l.state,
                                      !.newState = l.state,
                                      !.fileIdx = 1]
                /\ UNCHANGED <<processLock, result>>
    /\ UNCHANGED <<files, stateFile, tmpFile, covered>>

\* a loop body that keeps the offset the reader returned also on an error
ProcessFileKeepsOffset(i, outcome, sendOk) ==
    /\ pc[i] = "files"
    /\ cyc.fileIdx <= Len(findLogFiles)
    /\ cyc.cancelled =>
           \/ outcome = "open_err"
           \/ processSingleFileMultiline(findLogFiles[cyc.fileIdx], cyc.newState,
                  files[findLogFiles[cyc.fileIdx]], outcome).lines = <<>>
    /\ LET filePath == findLogFiles[cyc.fileIdx]
           r == processSingleFileMultiline(filePath, cyc.newState, files[filePath], outcome)
       IN  cyc' = [cyc EXCEPT !.fileIdx = @ + 1,
                              !.newState = Put(@, filePath, r.newOffset),
                              !.allLogs = @ \o r.entries,
                              !.reads = Put(@, filePath,
                                  [from |-> SeekOffset(cyc.newState, filePath, files[filePath]),
                                   size |-> Len(files[filePath]),
                                   lines |-> r.lines, entries |-> r.entries,
                                   err |-> r.err])]
    /\ UNCHANGED <<files, stateFile, tmpFile, processLock, pc, result, covered>>

\* a loop body that saves the state after every file it has read
ProcessFileSavesEach(i, outcome, sendOk) ==
    /\ pc[i] = "files"
    /\ cyc.fileIdx <= Len(findLogFiles)
    /\ cyc.cancelled =>
           \/ outcome = "open_err"
           \/ processSingleFileMultiline(findLogFiles[cyc.fileIdx], cyc.newState,
                  files[findLogFiles[cyc.fileIdx]], outcome).lines = <<>>
    /\ LET filePath == findLogFiles[cyc.fileIdx]
           r == processSingleFileMultiline(filePath, cyc.newState, files[filePath], outcome)
       IN  /\ cyc' = [cyc EXCEPT !.fileIdx = @ + 1,
                                 !.newState = Put(@, filePath, r.newOffset),
                                 !.allLogs = @ \o r.entries,
                                 !.reads = Put(@, filePath,
                                     [from |-> SeekOffset(cyc.newState, filePath, files[filePath]),
                                      size |-> Len(files[filePath]),
                                      lines |-> r.lines, entries |-> r.entries,
                                      err |-> r.err])]
           /\ stateFile' = Json(Marshal(Put(cyc.newState, filePath, r.newOffset)))
    /\ UNCHANGED <<files, tmpFile, processLock, pc, result, covered>>

\* a loop body that resets the accumulator only when the batch was sent
ProcessFileKeepsFailedBatch(i, outcome, sendOk) ==
    /\ pc[i] = "files"
    /\ cyc.fileIdx <= Len(findLogFiles)
    /\ cyc.cancelled =>
           \/ outcome = "open_err"
           \/ processSingleFileMultiline(findLogFiles[cyc.fileIdx], cyc.newState,
                  files[findLogFiles[cyc.fileIdx]], outcome).lines = <<>>
    /\ LET filePath == findLogFiles[cyc.fileIdx]
           r == processSingleFileMultiline(filePath, cyc.newState, files[filePath], outcome)
           acc == cyc.allLogs \o r.entries
           read == [cyc EXCEPT !.fileIdx = @ + 1,
                               !.reads = Put(@, filePath,
                                   [from |-> SeekOffset(cyc.newState, filePath, files[filePath]),
                                    size |-> Len(files[filePath]),
                                    lines |-> r.lines, entries |-> r.entries,
                                    err |-> r.err])]
       IN  IF r.err
           THEN /\ cyc' = [read EXCEPT !.newState =
                                           Put(@, filePath, Get(cyc.currentState, filePath))]
                /\ UNCHANGED covered
           ELSE IF Len(r.lines) > 0 /\ Len(acc) >= BatchSize
           THEN /\ cyc' = [read EXCEPT !.newState = Put(@, filePath, r.newOffset),
                                       !.allLogs = IF sendOk THEN <<>> ELSE acc,
                                       !.batches = Append(@, acc),
                                       !.failedFiles =
                                           IF sendOk THEN @ ELSE @ \cup SourceFiles(acc)]
                /\ covered' = Handed(acc)
           ELSE /\ cyc' = [read EXCEPT !.newState = Put(@, filePath, r.newOffset),
                                       !.allLogs = IF Len(r.lines) > 0 THEN acc ELSE @]
                /\ UNCHANGED covered
    /\ UNCHANGED <<files, stateFile, tmpFile, processLock, pc, result>>

\* ProcessLogs: one iteration of the loop over logFiles, with the
\* intermediate sendBatch when the accumulator reaches BatchSize
ProcessFile(i, outcome, sendOk) ==
    /\ pc[i] = "files"
    /\ cyc.fileIdx <= Len(findLogFiles)
    /\ cyc.cancelled =>
           \/ outcome = "open_err"
           \/ processSingleFileMultiline(findLogFiles[cyc.fileIdx], cyc.newState,
                  files[findLogFiles[cyc.fileIdx]], outcome).lines = <<>>
    /\ LET filePath == findLogFiles[cyc.fileIdx]
           r == processSingleFileMultiline(filePath, cyc.newState, files[filePath], outcome)
           acc == cyc.allLogs \o r.entries
           read == [cyc EXCEPT !.fileIdx = @ + 1,
                               !.reads = Put(@, filePath,
                                   [from |-> SeekOffset(cyc.newState, filePath, files[filePath]),
                                    size |-> Len(files[filePath]),
                                    lines |-> r.lines, entries |-> r.entries,
                                    err |-> r.err])]
       IN  IF r.err
           THEN /\ cyc' = [read EXCEPT !.newState =
                                           Put(@, filePath, Get(cyc.currentState, filePath))]
                /\ UNCHANGED covered
           ELSE IF Len(r.lines) > 0 /\ Len(acc) >= BatchSize
           THEN /\ cyc' = [read EXCEPT !.newState = Put(@, filePath, r.newOffset),
                                       !.allLogs = <<>>,
                                       !.batches = Append(@, acc),
                                       !.failedFiles =
                                           IF sendOk THEN @ ELSE @ \cup SourceFiles(acc)]
                /\ covered' = Handed(acc)
           ELSE /\ cyc' = [read EXCEPT !.newState = Put(@, filePath, r.newOffset),
                                       !.allLogs = IF Len(r.lines) > 0 THEN acc ELSE @]
                /\ UNCHANGED covered
    /\ UNCHANGED <<files, stateFile, tmpFile, processLock, pc, result>>

\* ProcessLogs: one iteration of the loop over logFiles in which the reader
\* sees ctx cancelled at the k-th line it scans (the first one when ctx was
\* cancelled before); the file keeps the offset the cycle loaded and the
\* entries returned with the error are dropped
ProcessFileCancelled(i, k) ==
    /\ pc[i] = "files"
    /\ cyc.fileIdx <= Len(findLogFiles)
    /\ cyc.cancelled => k = 1
    /\ LET filePath == findLogFiles[cyc.fileIdx]
           r == processSingleFileCancelled(filePath, cyc.newState, files[filePath], k)
       IN  /\ k <= Len(LinesToScan(filePath, cyc.newState, files[filePath]))
           /\ cyc' = [cyc EXCEPT !.fileIdx = @ + 1,
                                 !.cancelled = TRUE,
                                 !.reads = Put(@, filePath,
                                     [from |-> SeekOffset(cyc.newState, filePath, files[filePath]),
                                      size |-> Len(files[filePath]),
                                      lines |-> r.lines, entries |-> r.entries,
                                      err |-> r.err, observedAt |-> k,
                                      newOffset |-> r.newOffset]),
                                 !.newState = Put(@, filePath, Get(cyc.currentState, filePath))]
    /\ UNCHANGED <<files, stateFile, tmpFile, processLock, pc, result, covered>>

\* ProcessLogs: after the loop, flush the remainder; SaveState follows
FinalFlush(i, sendOk) ==
    /\ pc[i] = "files"
    /\ cyc.fileIdx > Len(findLogFiles)
    /\ IF Len(cyc.allLogs) > 0
       THEN /\ covered' = Handed(cyc.allLogs)
            /\ cyc' = [cyc EXCEPT !.batches = Append(@, cyc.allLogs),
                                  !.failedFiles =
                                      IF sendOk THEN @ ELSE @ \cup SourceFiles(cyc.allLogs)]
       ELSE UNCHANGED <<covered, cyc>>
    /\ pc' = [pc EXCEPT ![i] = "save"]
    /\ UNCHANGED <<files, stateFile, tmpFile, processLock, result>>

\* SaveState: os.WriteFile(tempFilePath) opens the file, truncating it
SaveOpenTemp(i, ok) ==
    /\ pc[i] = "save"
    /\ IF ok
       THEN /\ tmpFile' = Empty
            /\ pc' = [pc EXCEPT ![i] = "write"]
            /\ UNCHANGED <<result, processLock>>
       ELSE /\ pc' = [pc EXCEPT ![i] = "failed"]
            /\ result' = [result EXCEPT ![i] = "err"]
            /\ processLock' = FALSE
            /\ UNCHANGED tmpFile
    /\ UNCHANGED <<files, stateFile, cyc, covered>>

\* a save that writes the document over the state file itself
SaveWriteInPlace(i, ok) ==
    /\ pc[i] = "write"
    /\ IF ok
       THEN /\ stateFile' = Json(Marshal(cyc.newState))
            /\ tmpFile' = Json(Marshal(cyc.newState))
            /\ pc' = [pc EXCEPT ![i] = "rename"]
            /\ UNCHANGED <<result, processLock>>
       ELSE /\ stateFile' = Partial
            /\ tmpFile' = Partial
            /\ pc' = [pc EXCEPT ![i] = "failed"]
            /\ result' = [result EXCEPT ![i] = "err"]
            /\ processLock' = FALSE
    /\ UNCHANGED <<files, cyc, covered>>

\* SaveState: os.WriteFile(tempFilePath) writes the document
SaveWriteTemp(i, ok) ==
    /\ pc[i] = "write"
    /\ IF ok
       THEN /\ tmpFile' = Json(Marshal(cyc.newState))
            /\ pc' = [pc EXCEPT ![i] = "rename"]
            /\ UNCHANGED <<result, processLock>>
       ELSE /\ tmpFile' = Partial
            /\ pc' = [pc EXCEPT ![i] = "failed"]
            /\ result' = [result EXCEPT ![i] = "err"]
            /\ processLock' = FALSE
    /\ UNCHANGED <<files, stateFile, cyc, covered>>

\* SaveState: os.Rename(tempFilePath, filePath); on failure remove the temp file
SaveRename(i, ok) ==
    /\ pc[i] = "rename"
    /\ IF ok
       THEN /\ stateFile' = tmpFile
            /\ tmpFile' = Absent
            /\ pc' = [pc EXCEPT ![i] = "done"]
            /\ result' = [result EXCEPT ![i] = "nil"]
       ELSE /\ tmpFile' = Absent
            /\ pc' = [pc EXCEPT ![i] = "failed"]
            /\ result' = [result EXCEPT ![i] = "err"]
            /\ UNCHANGED stateFile
    /\ processLock' = FALSE
    /\ UNCHANGED <<files, cyc, covered>>

\* the process dies and is started again: memory is lost, the disk stays
Crash ==
    /\ \E i \in Invocations : pc[i] # "idle"
    /\ pc' = [i \in Invocations |-> "idle"]
    /\ result' = [i \in Invocations |-> "none"]
    /\ cyc' = NoLocals
    /\ processLock' = FALSE
    /\ UNCHANGED <<files, stateFile, tmpFile, covered>>

TotalBytes == Len(files[File1]) + Len(files[File2])

Quiet == \A i \in Invocations : pc[i] = "idle"

\* An application appends a byte to one of its log files.  A file is read in
\* one step, so a write during a cycle acts as one before or after it.
AppendByte(p, b, limit) ==
    /\ Quiet
    /\ TotalBytes < limit
    /\ files' = [files EXCEPT ![p] = Append(@, b)]
    /\ UNCHANGED <<stateFile, tmpFile, processLock, pc, result, cyc, covered>>

\* log rotation: the file starts again from nothing
Truncate(p) ==
    /\ Quiet
    /\ files[p] # <<>>
    /\ files' = [files EXCEPT ![p] = <<>>]
    /\ covered' = [covered EXCEPT ![p] = {}]
    /\ UNCHANGED <<stateFile, tmpFile, processLock, pc, result, cyc>>

InitProducer(contents) ==
    /\ files \in contents
    /\ stateFile = Absent
    /\ tmpFile = Absent
    /\ processLock = FALSE
    /\ pc = [i \in Invocations |-> "idle"]
    /\ result = [i \in Invocations |-> "none"]
    /\ cyc = NoLocals
    /\ covered = [p \in Paths |-> {}]

LoadOutcomes == {"ok", "read_err", "find_err"}

----------------------------------------------------------------------------
(* Indexing consumer: Run and processBatch *)

\* a message value is the JSON of a log entry, or bytes that do not decode
Values == {"json", "garbage"}

\* A decoded entry is named by the offset of its message; FetchMessage returns
\* a nil entry together with the message when the value does not decode.
NilEntry == [nil |-> TRUE, msg |-> 0]
Entry(o) == [nil |-> FALSE, msg |-> o]

NoBatch == [logEntries |-> <<>>, originalMessages |-> <<>>, commitNeeded |-> FALSE]

Range(s) == {s[j] : j \in DOMAIN s}

MaxOf(S) == CHOOSE m \in S : \A o \in S : o <= m

IsValid(e) == ~e.nil

\* processBatch: the entries handed to StoreLogs, nil ones filtered out
validLogEntries(logEntries) == SelectSeq(logEntries, IsValid)

Call(op, msgs, ok) == [op |-> op, msgs |-> msgs, ok |-> ok]

\* Run: top of the loop
RunLoop ==
    /\ cpc = "loop"
    /\ IF ctxDone
       THEN /\ cpc' = "stopped"
            /\ UNCHANGED <<batch, calls, lastErr>>
       ELSE /\ cpc' = "fetch"
            /\ batch' = NoBatch
            /\ calls' = <<>>
            /\ lastErr' = "none"
    /\ UNCHANGED <<topic, readerPos, committed, indexed, searchIndex, wait, ctxDone, storeFailed>>

\* processBatch: what follows the accumulation loop
AfterLoop(b) ==
    IF Len(b.logEntries) = 0
    THEN /\ cpc' = "loop"
         /\ lastErr' = "nil"
    ELSE /\ cpc' = "store"
         /\ UNCHANGED lastErr

FetchOutcomes == {"msg", "deadline", "error"}

\* processBatch: one iteration of the accumulation loop
Fetch(outcome) ==
    /\ cpc = "fetch"
    /\ IF ctxDone
       THEN /\ cpc' = "stopped"
            /\ lastErr' = "ctx"
            /\ UNCHANGED <<batch, readerPos>>
       ELSE IF outcome = "deadline"
       THEN /\ AfterLoop(batch)
            /\ UNCHANGED <<batch, readerPos>>
       ELSE IF outcome = "error"
       THEN /\ cpc' = "loop"
            /\ lastErr' = "fetch"
            /\ UNCHANGED <<batch, readerPos>>
       ELSE /\ readerPos <= Len(topic)
            /\ readerPos' = readerPos + 1
            /\ IF topic[readerPos] = "json"
               THEN LET b == [logEntries |-> Append(batch.logEntries, Entry(readerPos)),
                              originalMessages |-> Append(batch.originalMessages, readerPos),
                              commitNeeded |-> TRUE]
                    IN  /\ batch' = b
                        /\ IF Len(b.logEntries) >= BatchSize
                           THEN AfterLoop(b)
                           ELSE UNCHANGED <<cpc, lastErr>>
               ELSE LET b == [batch EXCEPT
                                  !.logEntries = Append(@, NilEntry),
                                  !.originalMessages = Append(@, readerPos)]
                    IN  /\ batch' = b
                        /\ IF Len(b.logEntries) < BatchSize
                           THEN UNCHANGED <<cpc, lastErr>>
                           ELSE AfterLoop(b)
    /\ UNCHANGED <<topic, committed, indexed, searchIndex, wait, ctxDone, calls, storeFailed>>

\* a batch step that goes on to the commit whatever StoreLogs returned
StoreLogsStepNoReturn(added, flushOk) ==
    /\ cpc = "store"
    /\ LET valid == validLogEntries(batch.logEntries)
           all == {valid[j].msg : j \in DOMAIN valid}
       IN  /\ added \subseteq all
           /\ indexed' = indexed \cup added
           /\ searchIndex' = IF flushOk THEN searchIndex \cup added ELSE searchIndex
           /\ UNCHANGED wait
           /\ calls' = Append(calls,
                  Call("StoreLogs", [j \in DOMAIN valid |-> valid[j].msg], added = all))
           /\ IF batch.commitNeeded
              THEN /\ cpc' = "commit"
                   /\ UNCHANGED lastErr
              ELSE /\ cpc' = "loop"
                   /\ lastErr' = "nil"
           /\ UNCHANGED storeFailed
    /\ UNCHANGED <<topic, readerPos, committed, ctxDone, batch>>

\* processBatch: StoreLogs on the valid entries.  `added` are the entries
\* BulkIndexer.Add accepted into its queue; StoreLogs returns an error when one
\* was refused.  The indexer's workers send the queue to the search index on
\* their own, after StoreLogs has returned: `flushOk` tells whether the bulk
\* request that carries the entries of this call succeeds.  The entries of a
\* bulk request that fails are dropped (no OnFailure is set on the items,
\* OnError only logs).
StoreLogsStep(added, flushOk) ==
    /\ cpc = "store"
    /\ LET valid == validLogEntries(batch.logEntries)
           all == {valid[j].msg : j \in DOMAIN valid}
           errLogStore == added # all
       IN  /\ added \subseteq all
           /\ indexed' = indexed \cup added
           /\ searchIndex' = IF flushOk THEN searchIndex \cup added ELSE searchIndex
           /\ UNCHANGED wait
           /\ calls' = Append(calls,
                  Call("StoreLogs", [j \in DOMAIN valid |-> valid[j].msg], ~errLogStore))
           /\ IF errLogStore
              THEN /\ cpc' = "loop"
                   /\ lastErr' = "store"
                   /\ storeFailed' = storeFailed \cup Range(batch.originalMessages)
              ELSE IF batch.commitNeeded
              THEN /\ cpc' = "commit"
                   /\ UNCHANGED <<lastErr, storeFailed>>
              ELSE /\ cpc' = "loop"
                   /\ lastErr' = "nil"
                   /\ UNCHANGED storeFailed
    /\ UNCHANGED <<topic, readerPos, committed, ctxDone, batch>>

\* what CommitMessages returns: nil, an error, or an error whose chain holds
\* context.DeadlineExceeded (a timeout)
CommitOutcomes == {"ok", "error", "deadline"}

\* processBatch: CommitMessages on every handle of the batch, and what Run
\* does with the error: it returns when errors.Is finds context.Canceled or
\* context.DeadlineExceeded in it, and sleeps a second and loops otherwise
CommitStep(outcome) ==
    /\ cpc = "commit"
    /\ calls' = Append(calls, Call("CommitMessages", batch.originalMessages, outcome = "ok"))
    /\ IF outcome = "ok"
       THEN /\ committed' = Max(committed, MaxOf(Range(batch.originalMessages)))
            /\ lastErr' = "nil"
            /\ cpc' = "loop"
       ELSE IF outcome = "deadline"
       THEN /\ lastErr' = "deadline"
            /\ cpc' = "stopped"
            /\ UNCHANGED committed
       ELSE /\ lastErr' = "commit"
            /\ cpc' = "loop"
            /\ UNCHANGED committed
    /\ UNCHANGED <<topic, readerPos, indexed, searchIndex, wait, ctxDone, batch, storeFailed>>

\* the application stops: the hook cancels the consumer's context
Cancel ==
    /\ ~ctxDone
    /\ cpc # "stopped"
    /\ ctxDone' = TRUE
    /\ UNCHANGED <<topic, readerPos, committed, indexed, searchIndex, wait, cpc, batch, calls, lastErr,
                   storeFailed>>

\* the process is started again: the reader resumes after the committed offset
Restart ==
    /\ cpc = "stopped"
    /\ readerPos' = committed + 1
    /\ ctxDone' = FALSE
    /\ cpc' = "loop"
    /\ batch' = NoBatch
    /\ calls' = <<>>
    /\ lastErr' = "none"
    /\ UNCHANGED <<topic, committed, indexed, searchIndex, wait, storeFailed>>

----------------------------------------------------------------------------
(* Indexing consumer: the clock of a batch build.  A time.Duration is an     *)
(* int64 count of nanoseconds, written here as its eight bytes in two's     *)
(* complement, lowest byte first, so that every operation wraps as int64    *)
(* does.                                                                   *)

Int64Of(n) == [i \in 1..8 |-> IF i > 4 THEN 0 ELSE (n \div (256 ^ (i - 1))) % 256]

Zero64 == Int64Of(0)

RECURSIVE AddFrom(_, _, _, _)
AddFrom(a, b, i, carry) ==
    IF i > 8 THEN <<>>
    ELSE <<(a[i] + b[i] + carry) % 256>>
             \o AddFrom(a, b, i + 1, (a[i] + b[i] + carry) \div 256)

Add64(a, b) == AddFrom(a, b, 1, 0)

Neg64(a) == Add64([i \in 1..8 |-> 255 - a[i]], Int64Of(1))

Sub64(a, b) == Add64(a, Neg64(b))

\* a times one byte, shifted left by `shift` bytes, the bytes above the
\* eighth dropped
RECURSIVE MulByteFrom(_, _, _, _, _)
MulByteFrom(a, m, shift, i, carry) ==
    IF i > 8 THEN <<>>
    ELSE IF i <= shift THEN <<0>> \o MulByteFrom(a, m, shift, i + 1, 0)
    ELSE <<(a[i - shift] * m + carry) % 256>>
             \o MulByteFrom(a, m, shift, i + 1, (a[i - shift] * m + carry) \div 256)

RECURSIVE MulFrom(_, _, _)
MulFrom(a, b, i) ==
    IF i > 8 THEN Zero64
    ELSE Add64(MulByteFrom(a, b[i], i - 1, 1, 0), MulFrom(a, b, i + 1))

\* the * of two int64 values
Mul64(a, b) == MulFrom(a, b, 1)

IsNegative(a) == a[8] >= 128

\* a < b for two values of the same sign, from the highest byte down
RECURSIVE LessFrom(_, _, _)
LessFrom(a, b, i) ==
    IF i < 1 THEN FALSE
    ELSE IF a[i] # b[i] THEN a[i] < b[i]
    ELSE LessFrom(a, b, i - 1)

Less64(a, b) ==
    IF IsNegative(a) # IsNegative(b) THEN IsNegative(a) ELSE LessFrom(a, b, 8)

\* time.Second, time.Millisecond
Second == Int64Of(1000000000)
Millisecond == Int64Of(1000000)

\* viper.GetDuration of "<n>s" and of "<n>ms"
Seconds(n) == Mul64(Int64Of(n), Second)
Milliseconds(n) == Mul64(Int64Of(n), Millisecond)

\* a constructor that takes the configured duration as it is
NewLogConsumerServiceUnscaled(MaxBatchWait) ==
    [configured |-> MaxBatchWait,
     maxWaitTime |-> MaxBatchWait,
     elapsed |-> Zero64, held |-> 0, fetches |-> <<>>, done |-> FALSE]

\* NewLogConsumerService: maxWaitTime, and the locals of the first
\* processBatch at its start (batchStartTime = now, no message held)
NewLogConsumerService(MaxBatchWait) ==
    [configured |-> MaxBatchWait,
     maxWaitTime |-> Mul64(MaxBatchWait, Second),
     elapsed |-> Zero64, held |-> 0, fetches |-> <<>>, done |-> FALSE]

\* processBatch: one pass of the fetch loop on the clock.  The fetch gets
\* maxWaitTime - time.Since(batchStartTime); a context whose timeout is not
\* positive is done at once.  A message arrives `delay` after the fetch
\* began, or the deadline passes first; when both the message and the end of
\* the context are there, FetchMessage returns either.  The loop ends on a
\* deadline and when BatchSize messages are held.
FetchTimed(arrives, delay) ==
    /\ ~wait.done
    /\ wait.held < BatchSize
    /\ LET timeout == Sub64(wait.maxWaitTime, wait.elapsed)
           expired == IsNegative(timeout) \/ timeout = Zero64
           fetched == Append(wait.fetches, [elapsed |-> wait.elapsed, timeout |-> timeout])
       IN  IF arrives
           THEN /\ IF expired THEN delay = Zero64 ELSE Less64(delay, timeout)
                /\ wait' = [wait EXCEPT !.elapsed = Add64(@, delay),
                                        !.held = @ + 1,
                                        !.fetches = fetched,
                                        !.done = wait.held + 1 >= BatchSize]
           ELSE /\ delay = Zero64
                /\ wait' = [wait EXCEPT !.elapsed = IF expired THEN @ ELSE Add64(@, timeout),
                                        !.fetches = fetched,
                                        !.done = TRUE]
    /\ UNCHANGED <<topic, readerPos, committed, indexed, searchIndex, ctxDone, cpc, batch,
                   calls, lastErr, storeFailed>>

\* Run: the next processBatch begins (batchStartTime = now, nothing held)
StartBatch ==
    /\ wait.done
    /\ wait' = [wait EXCEPT !.elapsed = Zero64, !.held = 0, !.fetches = <<>>,
                            !.done = FALSE]
    /\ UNCHANGED <<topic, readerPos, committed, indexed, searchIndex, ctxDone, cpc, batch,
                   calls, lastErr, storeFailed>>

InitConsumerOf(topics, waits) ==
    /\ topic \in topics
    /\ wait \in {NewLogConsumerService(w) : w \in waits}
    /\ readerPos = 1
    /\ committed = 0
    /\ indexed = {}
    /\ searchIndex = {}
    /\ ctxDone = FALSE
    /\ cpc = "loop"
    /\ batch = NoBatch
    /\ calls = <<>>
    /\ lastErr = "none"
    /\ storeFailed = {}

\* the consumer configured with the default LOG_PROCESSOR_MAX_BATCH_WAIT, "5s"
InitConsumer(topics) == InitConsumerOf(topics, {Seconds(5)})

----------------------------------------------------------------------------
(* Scheduler: the cron job of NewScheduler and its stop hook *)

NoStop == [at |-> "none", inFlight |-> {}]

InitScheduler ==
    /\ sched = "running"
    /\ jobs = {}
    /\ stopHook = NoStop

\* cron fires the schedule: it starts the job function, which it counts as
\* running until the function returns
CronTick(i) ==
    /\ sched = "running"
    /\ i \notin jobs
    /\ pc[i] = "idle"
    /\ jobs' = jobs \cup {i}
    /\ UNCHANGED <<sched, stopHook, producerVars, consumerVars, brokerVars, nlVars, queryVars,
                   extractorVars, managerVars,
                   storeVars>>

\* the job function: `go func() { ProcessLogs(context.Background()) }()`; it
\* returns as soon as the goroutine is started
JobSpawn(i) ==
    /\ i \in jobs
    /\ jobs' = jobs \ {i}
    /\ TryLock(i)
    /\ UNCHANGED <<sched, stopHook, consumerVars, brokerVars, nlVars, queryVars,
                   extractorVars, managerVars,
                   storeVars>>

\* OnStop: c.Stop() ends the scheduling and returns a context that is done
\* once no job function is executing
OnStopBegin ==
    /\ stopHook.at = "none"
    /\ sched' = "stopped"
    /\ stopHook' = [stopHook EXCEPT !.at = "waiting"]
    /\ UNCHANGED <<jobs, producerVars, consumerVars, brokerVars, nlVars, queryVars,
                   extractorVars, managerVars,
                   storeVars>>

\* OnStop: the select; "graceful" when stopCtx is done, "deadline" when the
\* hook's own context is done first
OnStopEnd(how) ==
    /\ stopHook.at = "waiting"
    /\ how = "graceful" => jobs = {}
    /\ stopHook' = [at |-> how,
                    inFlight |-> {i \in Invocations : pc[i] \in InCycle}]
    /\ UNCHANGED <<sched, jobs, producerVars, consumerVars, brokerVars, nlVars, queryVars,
                   extractorVars, managerVars,
                   storeVars>>

----------------------------------------------------------------------------
(* Broker producer: kafkaLogProducer.Produce over an asynchronous writer *)

\* The entries Produce is called with.  json.Marshal of a LogEntry fails only
\* on its Timestamp (time.Time.MarshalJSON refuses a year outside 0..9999).
Timestamps == {"in_range", "year_10000"}
Applications == {"application_1", "unknown_application"}
BatchEntries == [Application : Applications, Timestamp : Timestamps]

\* json.Marshal(LogEntry): [err, value]; the document is a one-element sequence
JsonMarshal(e) ==
    IF e.Timestamp = "year_10000"
    THEN [err |-> TRUE, value |-> <<>>]
    ELSE [err |-> FALSE, value |-> <<e>>]

\* kafka.Message{}: the zero value make() fills the slice with
ZeroMessage == [Key |-> <<>>, Value |-> <<>>]

\* Produce: the messages slice after the loop
Messages(logs) ==
    [j \in DOMAIN logs |->
        IF JsonMarshal(logs[j]).err
        THEN ZeroMessage
        ELSE [Key |-> <<logs[j].Application>>, Value |-> JsonMarshal(logs[j]).value]]

\* sendBatch: the messages Produce builds from a batch of the tailing
\* producer.  The Timestamp of an entry read from a file is either parsed from
\* a two-digit year or time.Now(), so it is always one json.Marshal accepts.
sendBatch(logs) ==
    Messages([j \in DOMAIN logs |->
                 [Application |-> logs[j].Application, Timestamp |-> "in_range"]])

NoCall == [at |-> "call", logs |-> <<>>, handed |-> <<>>, result |-> "none"]

WriteOutcomes == {"queued", "refused"}

\* Produce.  WriteMessages of a writer with Async: true returns an error only
\* when it refuses the call (writer closed, message too large, no partition
\* found); otherwise it queues the messages and returns nil.
Produce(outcome) ==
    /\ produce.at = "call"
    /\ IF Len(produce.logs) = 0
       THEN /\ produce' = [produce EXCEPT !.at = "returned", !.result = "nil"]
            /\ UNCHANGED writer
       ELSE IF Len(Messages(produce.logs)) = 0
       THEN /\ produce' = [produce EXCEPT !.at = "returned", !.result = "nil"]
            /\ UNCHANGED writer
       ELSE IF outcome = "refused"
       THEN /\ produce' = [produce EXCEPT !.at = "returned",
                                          !.handed = Messages(produce.logs),
                                          !.result = "err"]
            /\ UNCHANGED writer
       ELSE /\ produce' = [produce EXCEPT !.at = "returned",
                                          !.handed = Messages(produce.logs),
                                          !.result = "nil"]
            /\ writer' = [writer EXCEPT !.queue = @ \o Messages(produce.logs)]
    /\ UNCHANGED <<producerVars, consumerVars, schedulerVars, nlVars, queryVars,
                   extractorVars, managerVars,
                   storeVars>>

\* the writer's background goroutine sends the next queued message; a failed
\* write is reported to the writer's Completion callback only, and none is set
BrokerWrite(ok) ==
    /\ writer.queue # <<>>
    /\ writer' = IF ok
                 THEN [writer EXCEPT !.queue = Tail(@),
                                     !.written = Append(@, Head(writer.queue))]
                 ELSE [writer EXCEPT !.queue = Tail(@),
                                     !.lost = Append(@, Head(writer.queue))]
    /\ UNCHANGED <<produce, producerVars, consumerVars, schedulerVars, nlVars, queryVars,
                   extractorVars, managerVars,
                   storeVars>>

InitBroker(batches) ==
    /\ produce \in {[NoCall EXCEPT !.logs = b] : b \in batches}
    /\ writer = [queue |-> <<>>, written |-> <<>>, lost |-> <<>>]

----------------------------------------------------------------------------
(* Natural-language query service: HandleNLVQuery, ProcessNaturalLanguageQuery *)
(* and the in-memory conversation store.  A pointer is a sequence of at most  *)
(* one element; a conversation id is a sequence of characters.                *)

\* uuid.NewString(): an id no conversation has yet
NewID(store) == [j \in 1..(Cardinality(DOMAIN store) + 1) |-> "u"]

\* an id the client made up
StrangerID == <<"s">>

NoConversations == [c \in {} |-> <<>>]

\* CreateConversation: [store, id]
CreateConversation(store) ==
    [store |-> [c \in DOMAIN store \cup {NewID(store)} |->
                   IF c = NewID(store) THEN <<>> ELSE store[c]],
     id |-> NewID(store)]

\* GetHistory: [turns, err]
GetHistory(store, conversationId) ==
    IF conversationId \in DOMAIN store
    THEN [turns |-> store[conversationId], err |-> FALSE]
    ELSE [turns |-> <<>>, err |-> TRUE]

\* a store that forgets the earlier turns of the conversation
AddTurnOverwrites(store, conversationId, turn) ==
    IF conversationId \in DOMAIN store
    THEN [store EXCEPT ![conversationId] = <<turn>>]
    ELSE store

\* AddTurn: the store after the call (an unknown id leaves it as it is)
AddTurn(store, conversationId, turn) ==
    IF conversationId \in DOMAIN store
    THEN [store EXCEPT ![conversationId] = Append(@, turn)]
    ELSE store

\* a resolution that goes on with the id the client sent when it is unknown
ResolveKeepsUnknown(store, reqId) ==
    IF reqId = <<>> \/ reqId[1] = <<>>
    THEN [store |-> CreateConversation(store).store,
          conversationId |-> CreateConversation(store).id, history |-> <<>>]
    ELSE [store |-> store, conversationId |-> reqId[1],
          history |-> GetHistory(store, reqId[1]).turns]

\* ProcessNaturalLanguageQuery: the conversation of the request,
\* [store, conversationId, history]
ResolveConversation(store, reqId) ==
    IF reqId = <<>> \/ reqId[1] = <<>>
    THEN [store |-> CreateConversation(store).store,
          conversationId |-> CreateConversation(store).id, history |-> <<>>]
    ELSE IF GetHistory(store, reqId[1]).err
    THEN [store |-> CreateConversation(store).store,
          conversationId |-> CreateConversation(store).id, history |-> <<>>]
    ELSE [store |-> store, conversationId |-> reqId[1],
          history |-> GetHistory(store, reqId[1]).turns]

\* util.ParseTimeInput: [err, t]
ParseTimeInput(timeStr) ==
    IF timeStr = "t1" THEN [err |-> FALSE, t |-> 1]
    ELSE IF timeStr = "t2" THEN [err |-> FALSE, t |-> 2]
    ELSE [err |-> TRUE, t |-> 0]

Analysis(intent, metricName, start, end) ==
    [Intent |-> intent, MetricName |-> metricName,
     TimeRange |-> [Start |-> start, End |-> end]]

\* the analyses the LLM service may return
Analyses ==
    {Analysis("query_metric", <<"log_event">>, "t1", "t2"),
     Analysis("query_metric", <<>>, "t1", "t2"),
     Analysis("query_metric", <<"log_event">>, "soon", "t2"),
     Analysis("query_log", <<>>, "t1", "t2"),
     Analysis("query_log", <<>>, "t2", "t1"),
     Analysis("unknown", <<>>, "t1", "t2")}

createErrorResponse(query, message) ==
    [ConversationId |-> <<>>, OriginalQuery |-> query, ResultType |-> "error",
     ErrorMessage |-> <<message>>]

createErrorResponseWithId(convoId, query, message) ==
    [ConversationId |-> convoId, OriginalQuery |-> query, ResultType |-> "error",
     ErrorMessage |-> <<message>>]

DataResponse(convoId, query, resultType) ==
    [ConversationId |-> convoId, OriginalQuery |-> query, ResultType |-> resultType,
     ErrorMessage |-> <<>>]

NoResponse ==
    [ConversationId |-> <<>>, OriginalQuery |-> "", ResultType |-> "none",
     ErrorMessage |-> <<>>]

InvalidRange(analysis) ==
    \/ ParseTimeInput(analysis.TimeRange.Start).err
    \/ ParseTimeInput(analysis.TimeRange.End).err
    \/ ParseTimeInput(analysis.TimeRange.End).t < ParseTimeInput(analysis.TimeRange.Start).t

\* handleMetricQuery: [resp, panic]; *analysis.MetricName panics on a nil pointer
handleMetricQuery(conversationId, originalQuery, analysis, repoOk) ==
    IF InvalidRange(analysis)
    THEN [resp |-> createErrorResponseWithId(conversationId, originalQuery,
                       "Could not understand the time range."),
          panic |-> FALSE]
    ELSE IF analysis.MetricName = <<>>
    THEN [resp |-> NoResponse, panic |-> TRUE]
    ELSE IF ~repoOk
    THEN [resp |-> createErrorResponseWithId(conversationId, originalQuery,
                       "Failed to retrieve metric data."),
          panic |-> FALSE]
    ELSE [resp |-> DataResponse(conversationId, originalQuery, "timeseries"),
          panic |-> FALSE]

\* handleLogQuery: [resp, panic]
handleLogQuery(conversationId, originalQuery, analysis, repoOk) ==
    IF InvalidRange(analysis)
    THEN [resp |-> createErrorResponseWithId(conversationId, originalQuery,
                       "Could not understand the time range."),
          panic |-> FALSE]
    ELSE IF ~repoOk
    THEN [resp |-> createErrorResponseWithId(conversationId, originalQuery,
                       "Failed to retrieve log data."),
          panic |-> FALSE]
    ELSE [resp |-> DataResponse(conversationId, originalQuery, "log_list"),
          panic |-> FALSE]

\* ProcessNaturalLanguageQuery after the conversation is resolved:
\* [store, resp, panic]
ProcessNaturalLanguageQuery(rc, query, llmOk, analysis, repoOk) ==
    LET userTurn == [Role |-> "user", Content |-> [text |-> query]]
        modelTurn == [Role |-> "model", Content |-> [json |-> analysis]]
        saved == AddTurn(AddTurn(rc.store, rc.conversationId, userTurn),
                         rc.conversationId, modelTurn)
    IN  IF ~llmOk
        THEN [store |-> rc.store,
              resp |-> createErrorResponseWithId(rc.conversationId, query,
                           "Failed to analyze query with LLM"),
              panic |-> FALSE]
        ELSE IF analysis.Intent = "query_metric"
        THEN [store |-> saved] @@
             handleMetricQuery(rc.conversationId, query, analysis, repoOk)
        ELSE IF analysis.Intent = "query_log"
        THEN [store |-> saved] @@
             handleLogQuery(rc.conversationId, query, analysis, repoOk)
        ELSE [store |-> saved,
              resp |-> createErrorResponseWithId(rc.conversationId, query,
                           "Sorry, I could not understand that query or it's not supported yet."),
              panic |-> FALSE]

NoRequest ==
    [n |-> 0, req |-> <<>>, llmOk |-> FALSE, analysis |-> Analysis("", <<>>, "", ""),
     repoOk |-> FALSE, conversationId |-> <<>>, history |-> <<>>,
     status |-> "none", resp |-> NoResponse, served |-> [c \in {} |-> 0]]

\* HandleNLVQuery on a bound request: the service call and the answer; a panic
\* of the handler is answered by gin's Recovery middleware
HandleNLVQuery(reqId, llmOk, analysis, repoOk) ==
    /\ nl.n < MaxRequests
    /\ LET rc == ResolveConversation(convos, reqId)
           out == ProcessNaturalLanguageQuery(rc, "q", llmOk, analysis, repoOk)
           cid == rc.conversationId
       IN  /\ convos' = out.store
           /\ UNCHANGED handlers
           /\ nl' = [n |-> nl.n + 1, req |-> reqId, llmOk |-> llmOk,
                     analysis |-> analysis, repoOk |-> repoOk,
                     conversationId |-> cid, history |-> rc.history,
                     status |-> IF out.panic THEN "500" ELSE "200",
                     resp |-> out.resp,
                     served |-> [c \in DOMAIN out.store |->
                         (IF c \in DOMAIN nl.served THEN nl.served[c] ELSE 0)
                         + (IF c = cid /\ llmOk THEN 1 ELSE 0)]]
    /\ UNCHANGED <<producerVars, consumerVars, schedulerVars, brokerVars, queryVars,
                   extractorVars, managerVars,
                   storeVars>>

\* the goroutines of the HTTP server that serve natural-language requests at
\* the same time
Handlers == {"h1", "h2"}

\* the requests the concurrent handlers serve in all
MaxServed == 3

NoHandlers ==
    [pc |-> [h \in Handlers |-> "idle"],
     request |-> [h \in Handlers |-> 0],
     conversationId |-> [h \in Handlers |-> <<>>],
     analysis |-> [h \in Handlers |-> Analysis("", <<>>, "", "")],
     writers |-> [c \in {} |-> <<>>],
     returned |-> {},
     started |-> 0]

\* the conversation ids a client of the concurrent handlers may send: none,
\* the empty one, one it made up, or one a response gave it
ReturnedIds == {<<>>, <<(<<>>)>>, <<StrangerID>>} \cup {<<c>> : c \in handlers.returned}

\* the writers of the turns of every conversation of the store
WritersOf(store, writers) ==
    [c \in DOMAIN store |-> IF c \in DOMAIN writers THEN writers[c] ELSE <<>>]

\* ProcessNaturalLanguageQuery, first step: the handler resolves the
\* conversation of its request (GetHistory or CreateConversation, each under
\* the lock of the store)
BeginRequest(h, reqId) ==
    /\ handlers.pc[h] = "idle"
    /\ handlers.started < MaxServed
    /\ LET rc == ResolveConversation(convos, reqId)
       IN  /\ convos' = rc.store
           /\ handlers' = [handlers EXCEPT !.pc[h] = "llm",
                               !.request[h] = handlers.started + 1,
                               !.conversationId[h] = rc.conversationId,
                               !.writers = WritersOf(rc.store, @),
                               !.started = @ + 1]
    /\ UNCHANGED nl
    /\ UNCHANGED <<producerVars, consumerVars, schedulerVars, brokerVars, queryVars,
                   extractorVars, managerVars,
                   storeVars>>

\* ProcessNaturalLanguageQuery, second step: the LLM service answers; a
\* failure ends the request
AnalyzeRequest(h, llmOk, analysis) ==
    /\ handlers.pc[h] = "llm"
    /\ handlers' = [handlers EXCEPT !.pc[h] = IF llmOk THEN "user" ELSE "idle",
                                    !.analysis[h] = analysis,
                                    !.returned = IF llmOk THEN @
                                                 ELSE @ \cup {handlers.conversationId[h]}]
    /\ UNCHANGED <<convos, nl>>
    /\ UNCHANGED <<producerVars, consumerVars, schedulerVars, brokerVars, queryVars,
                   extractorVars, managerVars,
                   storeVars>>

\* ProcessNaturalLanguageQuery, third step: AddTurn of the user turn
AddUserTurn(h) ==
    /\ handlers.pc[h] = "user"
    /\ LET cid == handlers.conversationId[h]
           userTurn == [Role |-> "user", Content |-> [text |-> "q"]]
       IN  /\ convos' = AddTurn(convos, cid, userTurn)
           /\ handlers' = [handlers EXCEPT !.pc[h] = "model",
                               !.writers[cid] = Append(@, handlers.request[h])]
    /\ UNCHANGED nl
    /\ UNCHANGED <<producerVars, consumerVars, schedulerVars, brokerVars, queryVars,
                   extractorVars, managerVars,
                   storeVars>>

\* ProcessNaturalLanguageQuery, last step: AddTurn of the model turn; what
\* follows (the query of the intent, the response) leaves the store alone
AddModelTurn(h) ==
    /\ handlers.pc[h] = "model"
    /\ LET cid == handlers.conversationId[h]
           modelTurn == [Role |-> "model", Content |-> [json |-> handlers.analysis[h]]]
       IN  /\ convos' = AddTurn(convos, cid, modelTurn)
           /\ handlers' = [handlers EXCEPT !.pc[h] = "idle",
                               !.writers[cid] = Append(@, handlers.request[h]),
                               !.returned = @ \cup {cid}]
    /\ UNCHANGED nl
    /\ UNCHANGED <<producerVars, consumerVars, schedulerVars, brokerVars, queryVars,
                   extractorVars, managerVars,
                   storeVars>>

InitNL ==
    /\ convos = NoConversations
    /\ nl = NoRequest
    /\ handlers = NoHandlers

\* the conversation ids a client may send: none, the empty one, one it made
\* up, or one a response gave it
RequestIds == {<<>>, <<(<<>>)>>, <<StrangerID>>} \cup {<<c>> : c \in DOMAIN convos}

----------------------------------------------------------------------------
(* HTTP query endpoints *)

\* a query parameter is <<>> when the request does not carry it and <<v>> when
\* it does
Query(param) == IF param = <<>> THEN "" ELSE param[1]

DefaultQuery(param, defaultValue) == IF param = <<>> THEN defaultValue ELSE param[1]

\* util.ParseTimeFlexible: [err, t]. "t1" and "t2" stand for two timestamps in
\* order, "z" for 0001-01-01T00:00:00Z, whose time.Time is the zero value
ParseTimeFlexible(timeStr) ==
    IF timeStr = "z" THEN [err |-> FALSE, t |-> 0]
    ELSE IF timeStr = "t1" THEN [err |-> FALSE, t |-> 1]
    ELSE IF timeStr = "t2" THEN [err |-> FALSE, t |-> 2]
    ELSE [err |-> TRUE, t |-> 0]

IsZero(t) == t = 0

\* an error is its message, word by word; nil is the empty message
Contains(err, word) == \E i \in DOMAIN err : err[i] = word

\* what the Elasticsearch / TimescaleDB query returns
RepoErrors ==
    {<<>>, <<"connection", "refused">>, <<"invalid", "input", "syntax">>}

\* logQueryService.SearchLogs: [err, store]; store: the error is the store's
SearchLogs(startTime, endTime, repoErr) ==
    IF IsZero(startTime) \/ IsZero(endTime)
    THEN [err |-> <<"startTime", "and", "endTime", "are", "required">>, store |-> FALSE]
    ELSE IF endTime < startTime
    THEN [err |-> <<"endTime", "cannot", "be", "before", "startTime">>, store |-> FALSE]
    ELSE [err |-> repoErr, store |-> repoErr # <<>>]

\* metricQueryService.GetSummary
GetSummary(startTime, endTime, repoErr) ==
    IF IsZero(startTime) \/ IsZero(endTime)
    THEN [err |-> <<"startTime", "and", "endTime", "are", "required">>, store |-> FALSE]
    ELSE IF endTime < startTime
    THEN [err |-> <<"endTime", "cannot", "be", "before", "startTime">>, store |-> FALSE]
    ELSE [err |-> IF repoErr = <<>> THEN <<>>
                  ELSE <<"failed", "to", "get", "summary", "metrics">> \o repoErr,
          store |-> repoErr # <<>>]

\* metricQueryService.GetApplications
GetApplications(startTime, endTime, repoErr) ==
    IF IsZero(startTime) \/ IsZero(endTime)
    THEN [err |-> <<"startTime", "and", "endTime", "are", "required">>, store |-> FALSE]
    ELSE IF endTime < startTime
    THEN [err |-> <<"endTime", "cannot", "be", "before", "startTime">>, store |-> FALSE]
    ELSE [err |-> IF repoErr = <<>> THEN <<>>
                  ELSE <<"failed", "getting", "applications">> \o repoErr,
          store |-> repoErr # <<>>]

allowedMetrics == {"log_event", "error_event"}

allowedIntervals ==
    {"1 minute", "5 minute", "10 minute", "30 minute", "1 hour", "1 day"}

allowedGroupBy == {"level", "component", "error_key", "application", "total", ""}

\* metricQueryService.GetTimeseries
GetTimeseries(startTime, endTime, metricName, interval, groupBy, repoErr) ==
    IF IsZero(startTime) \/ IsZero(endTime)
    THEN [err |-> <<"startTime", "and", "endTime", "are", "required">>, store |-> FALSE]
    ELSE IF endTime < startTime
    THEN [err |-> <<"endTime", "cannot", "be", "before", "startTime">>, store |-> FALSE]
    ELSE IF metricName \notin allowedMetrics
    THEN [err |-> <<"invalid", "metricName">>, store |-> FALSE]
    ELSE IF interval \notin allowedIntervals
    THEN [err |-> <<"invalid", "interval">>, store |-> FALSE]
    ELSE IF (IF groupBy = "" THEN "total" ELSE groupBy) \notin allowedGroupBy
    THEN [err |-> <<"invalid", "groupBy">>, store |-> FALSE]
    ELSE [err |-> IF repoErr = <<>> THEN <<>>
                  ELSE <<"timeseries", "query", "failed">> \o repoErr,
          store |-> repoErr # <<>>]

\* parseBaseQueryParams: [err, startTime, endTime]
parseBaseQueryParams(q) ==
    LET startTime == ParseTimeFlexible(Query(q.startTime))
        endTime == ParseTimeFlexible(Query(q.endTime))
    IN  IF Query(q.startTime) = "" \/ Query(q.endTime) = ""
        THEN [err |-> TRUE, startTime |-> 0, endTime |-> 0]
        ELSE IF startTime.err \/ endTime.err
        THEN [err |-> TRUE, startTime |-> 0, endTime |-> 0]
        ELSE IF endTime.t < startTime.t
        THEN [err |-> TRUE, startTime |-> 0, endTime |-> 0]
        ELSE [err |-> FALSE, startTime |-> startTime.t, endTime |-> endTime.t]

Answer(endpoint, q, repoErr, status, store) ==
    [endpoint |-> endpoint, q |-> q, repoErr |-> repoErr, status |-> status,
     storeFailed |-> store]

\* the query parameters a request may carry; the endpoints that read no metric
\* name, interval or groupBy are sent none
TimeParams == {<<>>, <<"x">>, <<"z">>, <<"t1">>, <<"t2">>}

BaseQueries ==
    [startTime : TimeParams, endTime : TimeParams, metricName : {<<>>},
     interval : {<<>>}, groupBy : {<<>>}]

TimeseriesQueries ==
    [startTime : TimeParams, endTime : TimeParams,
     metricName : {<<>>, <<"log_event">>, <<"cpu">>},
     interval : {<<>>, <<"1 hour">>, <<"2 hour">>},
     groupBy : {<<>>, <<"level">>, <<"host">>}]

\* LogController.GetLogs
GetLogs(q, repoErr) ==
    LET startTime == ParseTimeFlexible(Query(q.startTime))
        endTime == ParseTimeFlexible(Query(q.endTime))
        res == SearchLogs(startTime.t, endTime.t, repoErr)
    IN  /\ http' = IF startTime.err \/ endTime.err
                   THEN Answer("logs", q, repoErr, "400", FALSE)
                   ELSE IF res.err # <<>>
                   THEN Answer("logs", q, repoErr, "500", res.store)
                   ELSE Answer("logs", q, repoErr, "200", FALSE)
        /\ UNCHANGED <<producerVars, consumerVars, schedulerVars, brokerVars, nlVars,
                       extractorVars, managerVars,
                   storeVars>>

\* MetricController.GetSummaryMetrics
GetSummaryMetrics(q, repoErr) ==
    LET base == parseBaseQueryParams(q)
        res == GetSummary(base.startTime, base.endTime, repoErr)
    IN  /\ http' = IF base.err
                   THEN Answer("summary", q, repoErr, "400", FALSE)
                   ELSE IF res.err # <<>>
                   THEN Answer("summary", q, repoErr, "500", res.store)
                   ELSE Answer("summary", q, repoErr, "200", FALSE)
        /\ UNCHANGED <<producerVars, consumerVars, schedulerVars, brokerVars, nlVars,
                       extractorVars, managerVars,
                   storeVars>>

\* MetricController.GetTimeseriesMetrics
GetTimeseriesMetrics(q, repoErr) ==
    LET base == parseBaseQueryParams(q)
        metricName == Query(q.metricName)
        interval == Query(q.interval)
        groupBy == DefaultQuery(q.groupBy, "total")
        res == GetTimeseries(base.startTime, base.endTime, metricName, interval,
                                groupBy, repoErr)
    IN  /\ http' = IF base.err
                   THEN Answer("timeseries", q, repoErr, "400", FALSE)
                   ELSE IF metricName = "" \/ interval = ""
                   THEN Answer("timeseries", q, repoErr, "400", FALSE)
                   ELSE IF res.err # <<>>
                   THEN IF Contains(res.err, "invalid")
                        THEN Answer("timeseries", q, repoErr, "400", res.store)
                        ELSE Answer("timeseries", q, repoErr, "500", res.store)
                   ELSE Answer("timeseries", q, repoErr, "200", FALSE)
        /\ UNCHANGED <<producerVars, consumerVars, schedulerVars, brokerVars, nlVars,
                       extractorVars, managerVars,
                   storeVars>>

\* MetricController.GetApplications
GetApplicationsList(q, repoErr) ==
    LET base == parseBaseQueryParams(q)
        res == GetApplications(base.startTime, base.endTime, repoErr)
    IN  /\ http' = IF base.err
                   THEN Answer("applications", q, repoErr, "400", FALSE)
                   ELSE IF res.err # <<>>
                   THEN Answer("applications", q, repoErr, "500", res.store)
                   ELSE Answer("applications", q, repoErr, "200", FALSE)
        /\ UNCHANGED <<producerVars, consumerVars, schedulerVars, brokerVars, nlVars,
                       extractorVars, managerVars,
                   storeVars>>

NoQuery ==
    Answer("none", [startTime |-> <<>>, endTime |-> <<>>, metricName |-> <<>>,
                    interval |-> <<>>, groupBy |-> <<>>], <<>>, "none", FALSE)

InitQuery == http = NoQuery

----------------------------------------------------------------------------
(* Metric extractor *)

UpperCase ==
    <<"A", "B", "C", "D", "E", "F", "G", "H", "I", "J", "K", "L", "M",
      "N", "O", "P", "Q", "R", "S", "T", "U", "V", "W", "X", "Y", "Z">>

LowerCase ==
    <<"a", "b", "c", "d", "e", "f", "g", "h", "i", "j", "k", "l", "m",
      "n", "o", "p", "q", "r", "s", "t", "u", "v", "w", "x", "y", "z">>

\* the (?i) flag: a letter of the text is compared in lower case
Fold(c) ==
    IF \E k \in DOMAIN UpperCase : UpperCase[k] = c
    THEN LowerCase[CHOOSE k \in DOMAIN UpperCase : UpperCase[k] = c]
    ELSE c

\* the alternatives of sparkLogExtractor.exceptionRegex
exceptionRegex ==
    {<<"e", "x", "c", "e", "p", "t", "i", "o", "n">>,
     <<"e", "r", "r", "o", "r">>,
     <<"f", "a", "i", "l">>,
     <<"c", "a", "u", "s", "e", "d", " ", "b", "y">>}

\* a matcher compiled without the (?i) flag
MatchStringExactCase(content) ==
    \E w \in exceptionRegex, i \in 1..Len(content) :
        /\ i + Len(w) - 1 <= Len(content)
        /\ \A j \in 1..Len(w) : content[i + j - 1] = w[j]

\* exceptionRegex.MatchString: the pattern is not anchored
MatchString(content) ==
    \E w \in exceptionRegex, i \in 1..Len(content) :
        /\ i + Len(w) - 1 <= Len(content)
        /\ \A j \in 1..Len(w) : Fold(content[i + j - 1]) = w[j]

MetricEvent(time, metricName, application, tags) ==
    [Time |-> time, MetricName |-> metricName, Application |-> application,
     Tags |-> tags]

\* sparkLogExtractor.ExtractMetricEvents; logEntry is <<>> for nil and <<e>>
\* for a pointer to e
ExtractMetricEvents(logEntry) ==
    IF logEntry = <<>> THEN <<>>
    ELSE
        LET e == logEntry[1]
            logEventTags ==
                IF e.Level = "UNKNOWN" \/ e.Component = "UNKNOWN" \/ e.Component = "ORPHAN"
                THEN [level |-> e.Level, component |-> e.Component,
                      parse_status |-> "failed_or_orphan"]
                ELSE [level |-> e.Level, component |-> e.Component]
            events == <<MetricEvent(e.Timestamp, "log_event", e.Application, logEventTags)>>
            isError == e.Level = "ERROR" \/ MatchString(e.Content)
        IN  IF isError
            THEN Append(events,
                     MetricEvent(e.Timestamp, "error_event", e.Application,
                         [component |-> e.Component, level |-> e.Level,
                          error_key |-> e.Content]))
            ELSE events

\* contents of log entries: some hold a word of the pattern in some letter
\* case, some come close
PlainContents ==
    {<<>>,
     <<"o", "k">>,
     <<"f", "a", "i">>,
     <<"e", "r", "r", " ", "o", "r">>,
     <<"c", "a", "u", "s", "e", "d", "b", "y">>}

ErrorContents ==
    {<<"f", "a", "i", "l">>,
     <<"F", "A", "I", "L">>,
     <<"j", "o", "b", " ", "F", "a", "i", "l", "e", "d">>,
     <<"E", "r", "r", "o", "r", ":">>,
     <<"C", "a", "u", "s", "e", "d", " ", "b", "y", ":">>,
     <<"I", "O", "E", "x", "c", "e", "p", "t", "i", "o", "n">>}

ExtractorEntries ==
    [Timestamp : {1, 2},
     Level : {"INFO", "ERROR", "UNKNOWN", "error"},
     Component : {"Executor", "UNKNOWN", "ORPHAN"},
     Content : PlainContents \cup ErrorContents,
     Application : {"application_1", "application_2"}]

NoExtraction == [called |-> FALSE, logEntry |-> <<>>, events |-> <<>>]

\* one call of the extractor
Extract(logEntry) ==
    /\ extracted' = [called |-> TRUE, logEntry |-> logEntry,
                     events |-> ExtractMetricEvents(logEntry)]
    /\ UNCHANGED <<producerVars, consumerVars, schedulerVars, brokerVars, nlVars,
                   queryVars, managerVars,
                   storeVars>>

InitExtractor == extracted = NoExtraction

----------------------------------------------------------------------------
(* File-state manager called on its own *)

\* the mappings handed to SaveState: some of three paths, small offsets
ManagerPaths == {File1, FileFF, FileFFFD}

ManagerOffsets == {0, 1}

ManagerStates ==
    UNION {[D -> ManagerOffsets] : D \in SUBSET ManagerPaths}

NoManagerCall == [op |-> "none", err |-> FALSE, state |-> EmptyState]

\* fileStateManager.SaveState under its mutex: marshal, write <path>.tmp, rename
SaveState(state, outcome) ==
    /\ \/ /\ outcome = "write_fails"
          /\ tmpFile' \in {tmpFile, Partial}
          /\ UNCHANGED stateFile
          /\ mgr' = [saved |-> mgr.saved,
                     last |-> [op |-> "save", err |-> TRUE, state |-> state]]
       \/ /\ outcome = "rename_fails"
          /\ tmpFile' = Absent
          /\ UNCHANGED stateFile
          /\ mgr' = [saved |-> mgr.saved,
                     last |-> [op |-> "save", err |-> TRUE, state |-> state]]
       \/ /\ outcome = "ok"
          /\ tmpFile' = Absent
          /\ stateFile' = Json(Marshal(state))
          /\ mgr' = [saved |-> <<state>>,
                     last |-> [op |-> "save", err |-> FALSE, state |-> state]]
    /\ UNCHANGED <<files, processLock, pc, result, cyc, covered>>
    /\ UNCHANGED <<consumerVars, schedulerVars, brokerVars, nlVars, queryVars,
                   extractorVars, storeVars>>

\* fileStateManager.LoadState
ManagerLoad(readFails) ==
    /\ mgr' = [saved |-> mgr.saved,
               last |-> [op |-> IF readFails THEN "load_io" ELSE "load"]
                        @@ LoadState(stateFile, readFails)]
    /\ UNCHANGED <<producerVars, consumerVars, schedulerVars, brokerVars, nlVars,
                   queryVars, extractorVars, storeVars>>

InitManager == mgr = [saved |-> <<>>, last |-> NoManagerCall]

----------------------------------------------------------------------------
(* Time-series repository.  Time is counted in minutes; a tag or a scanned  *)
(* column is <<>> for NULL and <<v>> for the string v; a string that the    *)
(* code builds by concatenation is the sequence of its parts.               *)

\* a row of the metric events table
StoredEvent(time, metricName, application, level, component) ==
    [time |-> time, metric_name |-> metricName, application |-> application,
     tags |-> [level |-> level, component |-> component, error_key |-> <<>>]]

\* the rows the table may hold
StoredEvents ==
    {StoredEvent(0, "log_event", "application_1", <<(<<"INFO">>)>>, <<(<<"Executor">>)>>),
     StoredEvent(4, "log_event", "application_1", <<(<<"INFO">>)>>, <<(<<"ORPHAN">>)>>),
     StoredEvent(4, "log_event", "application_2", <<(<<"ERROR">>)>>, <<(<<"Executor">>)>>),
     StoredEvent(5, "log_event", "application_1", <<(<<"ERROR">>)>>, <<>>),
     StoredEvent(5, "error_event", "application_1", <<(<<"ERROR">>)>>, <<(<<"Executor">>)>>),
     StoredEvent(0, "log_event", "application_2", <<>>, <<(<<"Executor">>)>>),
     StoredEvent(1, "log_event", "application_2", <<(<<"level", "_NULL">>)>>,
                 <<(<<"UNKNOWN">>)>>)}

\* the interval of time_bucket, in minutes
IntervalMinutes(interval) ==
    CASE interval = "1 minute" -> 1
      [] interval = "5 minute" -> 5
      [] interval = "10 minute" -> 10
      [] interval = "30 minute" -> 30
      [] interval = "1 hour" -> 60
      [] interval = "1 day" -> 1440

\* time_bucket(interval, time)
time_bucket(interval, time) == time - (time % IntervalMinutes(interval))

\* GetTimeseriesMetrics: the tags and columns a query may group by
groupByColumns == {"level", "component", "error_key", "application"}

\* the group_key expression of the SELECT list
groupBySQL(groupBy, row) ==
    IF groupBy \notin groupByColumns THEN <<(<<"total">>)>>
    ELSE IF groupBy = "application" THEN <<(<<row.application>>)>>
    ELSE row.tags[groupBy]

\* SQL: x NOT IN (values) is true only for a non-NULL x outside the values
NotIn(x, values) == x # <<>> /\ x[1] \notin values

\* the WHERE clause
Where(req, row) ==
    /\ row.metric_name = req.MetricName
    /\ row.time >= req.StartTime
    /\ row.time < req.EndTime
    /\ req.Applications # {} => row.application \in req.Applications
    /\ req.GroupBy = "component" =>
           NotIn(row.tags.component, {<<"UNKNOWN">>, <<"ORPHAN">>})

\* the rows of the result: one per bucket and group_key, counting table rows
ResultRows(table, req) ==
    LET selected == {j \in DOMAIN table : Where(req, table[j])}
        column(j) == [bucket |-> time_bucket(req.Interval, table[j].time),
                      group_key |-> groupBySQL(req.GroupBy, table[j])]
    IN  {[bucket |-> g.bucket, group_key |-> g.group_key,
          value |-> Cardinality({j \in selected : column(j) = g})] :
             g \in {column(j) : j \in selected}}

\* time.Time.UnixMilli of a time counted in minutes
UnixMilli(time) == time * 60000

\* the series a scanned row is appended to
SeriesKey(groupBy, groupKey) ==
    IF groupBy \notin groupByColumns THEN <<"total">>
    ELSE IF groupKey # <<>> THEN groupKey[1]
    ELSE <<groupBy, "_NULL">>

\* ORDER BY bucket ASC: a set of result rows in the order they are scanned
RECURSIVE Ordered(_)
Ordered(rows) ==
    IF rows = {} THEN <<>>
    ELSE LET first == CHOOSE r \in rows : \A o \in rows : r.bucket <= o.bucket
         IN  <<first>> \o Ordered(rows \ {first})

\* the rows loop: a point appended to the series of its key
RECURSIVE ScanRows(_, _, _)
ScanRows(rows, groupBy, seriesMap) ==
    IF rows = <<>> THEN seriesMap
    ELSE LET key == SeriesKey(groupBy, Head(rows).group_key)
             point == [Timestamp |-> UnixMilli(Head(rows).bucket),
                       Value |-> Head(rows).value]
             data == IF key \in DOMAIN seriesMap THEN seriesMap[key] ELSE <<>>
         IN  ScanRows(Tail(rows), groupBy,
                 [k \in DOMAIN seriesMap \cup {key} |->
                     IF k = key THEN Append(data, point) ELSE seriesMap[k]])

\* timescaleMetricRepository.GetTimeseriesMetrics without sort and limit:
\* [err, Series]; Series maps the name of a series to its data
RepoGetTimeseriesMetrics(table, req) ==
    IF req.Interval \notin allowedIntervals
    THEN [err |-> TRUE, Series |-> <<>>]
    ELSE [err |-> FALSE,
          Series |-> ScanRows(Ordered(ResultRows(table, req)), req.GroupBy, <<>>)]

MetricTimeseriesRequest(startTime, endTime, applications, metricName, interval, groupBy) ==
    [StartTime |-> startTime, EndTime |-> endTime, Applications |-> applications,
     MetricName |-> metricName, Interval |-> interval, GroupBy |-> groupBy]

\* the requests the repository is called with
TimeseriesRequests ==
    {MetricTimeseriesRequest(s, 6, apps, "log_event", interval, groupBy) :
        s \in {0, 1}, apps \in {{}, {"application_1"}},
        interval \in {"1 minute", "5 minute"},
        groupBy \in {"total", "", "level", "component", "application"}}

NoTimeseries ==
    [called |-> FALSE,
     req |-> MetricTimeseriesRequest(0, 0, {}, "", "", ""),
     resp |-> [err |-> FALSE, Series |-> <<>>]]

MetricSummaryRequest(startTime, endTime, applications) ==
    [StartTime |-> startTime, EndTime |-> endTime, Applications |-> applications]

\* SELECT COUNT(*) ... WHERE metric_name = ... AND time >= $1 AND time < $2
\* [AND application IN (...)]
CountEvents(table, metricName, req) ==
    Cardinality({j \in DOMAIN table :
                    /\ table[j].metric_name = metricName
                    /\ table[j].time >= req.StartTime
                    /\ table[j].time < req.EndTime
                    /\ req.Applications # {} => table[j].application \in req.Applications})

\* timescaleMetricRepository.GetSummaryMetrics: [err, TotalLogEvents,
\* TotalErrorEvents].  A QueryRow(...).Scan that fails leaves its field at 0;
\* err holds the outcome of the second query when the result is decided.
RepoGetSummaryMetrics(table, req, logFails, errorFails) ==
    LET TotalLogEvents == IF logFails THEN 0 ELSE CountEvents(table, "log_event", req)
        TotalErrorEvents == IF errorFails THEN 0
                            ELSE CountEvents(table, "error_event", req)
    IN  IF TotalLogEvents = 0 /\ TotalErrorEvents = 0 /\ errorFails
        THEN [err |-> TRUE, TotalLogEvents |-> 0, TotalErrorEvents |-> 0]
        ELSE [err |-> FALSE, TotalLogEvents |-> TotalLogEvents,
              TotalErrorEvents |-> TotalErrorEvents]

NoSummary ==
    [called |-> FALSE, req |-> MetricSummaryRequest(0, 0, {}),
     logFails |-> FALSE, errorFails |-> FALSE,
     resp |-> [err |-> FALSE, TotalLogEvents |-> 0, TotalErrorEvents |-> 0]]

\* what the last time-series request asked for and how it was answered, on the
\* HTTP path or on the natural-language one
NoServed ==
    [path |-> "none", interval |-> "", groupBy |-> "", answer |-> "none",
     columns |-> <<>>]

\* one time-series query on the table
QueryTimeseries(req) ==
    /\ tsdb' = [table |-> tsdb.table,
                last |-> [called |-> TRUE, req |-> req,
                          resp |-> RepoGetTimeseriesMetrics(tsdb.table, req)],
                served |-> NoServed, summary |-> tsdb.summary]
    /\ UNCHANGED <<search, llm>>
    /\ UNCHANGED <<producerVars, consumerVars, schedulerVars, brokerVars, nlVars,
                   queryVars, extractorVars, managerVars>>

\* one summary query on the table, in which either count query may fail
QuerySummary(req, logFails, errorFails) ==
    /\ tsdb' = [tsdb EXCEPT !.summary =
                    [called |-> TRUE, req |-> req,
                     logFails |-> logFails, errorFails |-> errorFails,
                     resp |-> RepoGetSummaryMetrics(tsdb.table, req, logFails, errorFails)]]
    /\ UNCHANGED <<search, llm>>
    /\ UNCHANGED <<producerVars, consumerVars, schedulerVars, brokerVars, nlVars,
                   queryVars, extractorVars, managerVars>>

InitTimeseriesTable(tables) ==
    /\ tsdb \in [table : tables, last : {NoTimeseries}, served : {NoServed},
                  summary : {NoSummary}]

\* MetricController.GetTimeseriesMetrics down to the table: the controller,
\* metricQueryService.GetTimeseries, then the repository
GetTimeseriesMetricsOnTable(q) ==
    LET base == parseBaseQueryParams(q)
        metricName == Query(q.metricName)
        interval == Query(q.interval)
        groupBy == DefaultQuery(q.groupBy, "total")
        res == GetTimeseries(base.startTime, base.endTime, metricName, interval,
                                groupBy, <<>>)
        req == MetricTimeseriesRequest(base.startTime, base.endTime, {}, metricName,
                   interval, IF groupBy = "" THEN "total" ELSE groupBy)
        refused == base.err \/ metricName = "" \/ interval = "" \/ res.err # <<>>
        resp == RepoGetTimeseriesMetrics(tsdb.table, req)
    IN  /\ tsdb' = [table |-> tsdb.table,
                    last |-> IF refused THEN tsdb.last
                             ELSE [called |-> TRUE, req |-> req, resp |-> resp],
                    served |-> [path |-> "http", interval |-> interval,
                                groupBy |-> groupBy,
                                answer |-> IF refused \/ resp.err THEN "error" ELSE "data",
                                columns |-> <<>>],
                    summary |-> tsdb.summary]
        /\ UNCHANGED <<search, llm>>
        /\ UNCHANGED <<producerVars, consumerVars, schedulerVars, brokerVars, nlVars,
                       queryVars, extractorVars, managerVars>>

\* a group_by item of the LLM plan is the sequence of its parts, the prefix
\* "tags." being one part: <<"tags.", "level">>, <<"application">>
determineGroupByField(groupBy) ==
    IF groupBy = <<>> THEN "total"
    ELSE IF \E j \in DOMAIN groupBy : groupBy[j][1] = "tags."
    THEN groupBy[CHOOSE j \in DOMAIN groupBy :
                     /\ groupBy[j][1] = "tags."
                     /\ \A l \in 1..(j - 1) : groupBy[l][1] # "tags."][2]
    ELSE groupBy[1][1]

\* determineInterval, on a range counted in hours
determineInterval(hours) ==
    IF hours <= 2 THEN "1 minute"
    ELSE IF hours <= 12 THEN "5 minute"
    ELSE IF hours <= 24 * 2 THEN "10 minute"
    ELSE IF hours <= 24 * 7 THEN "1 hour"
    ELSE "1 day"

\* nlvService.handleMetricQuery down to the table, for a plan whose time range
\* was understood (it begins at minute 0 and lasts `hours`) and whose metric is
\* log_event
handleMetricQueryOnTable(groupBy, hours) ==
    LET interval == determineInterval(hours)
        metricReq == MetricTimeseriesRequest(0, hours * 60, {}, "log_event", interval,
                         determineGroupByField(groupBy))
        resp == RepoGetTimeseriesMetrics(tsdb.table, metricReq)
    IN  /\ tsdb' = [table |-> tsdb.table,
                    last |-> [called |-> TRUE, req |-> metricReq, resp |-> resp],
                    served |-> [path |-> "nl", interval |-> interval,
                                groupBy |-> determineGroupByField(groupBy),
                                answer |-> IF resp.err THEN "error" ELSE "data",
                                columns |-> IF resp.err THEN <<>>
                                            ELSE <<"timestamp",
                                                   determineGroupByField(groupBy),
                                                   "value">>],
                    summary |-> tsdb.summary]
        /\ UNCHANGED <<search, llm>>
        /\ UNCHANGED <<producerVars, consumerVars, schedulerVars, brokerVars, nlVars,
                       queryVars, extractorVars, managerVars>>

InitTimeseries == InitTimeseriesTable({<<>>})

----------------------------------------------------------------------------
(* Log search.  The sort order and the levels of a request are sequences of *)
(* letters; a string built with Sprintf is the sequence of its parts.       *)

ToLower(str) == [j \in DOMAIN str |-> Fold(str[j])]

ToUpper(str) ==
    [j \in DOMAIN str |->
        IF \E k \in DOMAIN LowerCase : LowerCase[k] = str[j]
        THEN UpperCase[CHOOSE k \in DOMAIN LowerCase : LowerCase[k] = str[j]]
        ELSE str[j]]

asc == <<"a", "s", "c">>
desc == <<"d", "e", "s", "c">>

LogSearchRequest(startTime, endTime, levels, sortBy, sortOrder, page, size) ==
    [StartTime |-> startTime, EndTime |-> endTime, Levels |-> levels,
     SortBy |-> sortBy, SortOrder |-> sortOrder, Page |-> page, Size |-> size]

\* a SearchLogs that passes the levels on as they came
NormalizeKeepsLevels(req) ==
    [req EXCEPT
        !.Page = IF req.Page <= 0 THEN 1 ELSE req.Page,
        !.Size = IF req.Size <= 0 \/ req.Size > 1000 THEN 500 ELSE req.Size,
        !.SortBy = IF req.SortBy = "" THEN "@timestamp" ELSE req.SortBy,
        !.SortOrder = IF ToLower(req.SortOrder) \notin {asc, desc}
                      THEN desc ELSE ToLower(req.SortOrder)]

\* logQueryService.SearchLogs after its two checks of the time range: the
\* request handed to the repository
Normalize(req) ==
    [req EXCEPT
        !.Page = IF req.Page <= 0 THEN 1 ELSE req.Page,
        !.Size = IF req.Size <= 0 \/ req.Size > 1000 THEN 500 ELSE req.Size,
        !.SortBy = IF req.SortBy = "" THEN "@timestamp" ELSE req.SortBy,
        !.SortOrder = IF ToLower(req.SortOrder) \notin {asc, desc}
                      THEN desc ELSE ToLower(req.SortOrder),
        !.Levels = [j \in DOMAIN req.Levels |-> ToUpper(req.Levels[j])]]

knownKeywordFields == {"level", "component", "application", "source_file"}

\* a repository that sorts on the .keyword sub-field whatever the field
sortFieldAlwaysKeyword(sortBy) == <<sortBy, ".keyword">>

\* elasticsearchLogRepository.Search: the field of the sort clause
sortField(sortBy) ==
    IF sortBy # "@timestamp" /\ sortBy \in knownKeywordFields
    THEN <<sortBy, ".keyword">>
    ELSE <<sortBy>>

\* elasticsearchLogRepository.Search: the search.Request sent to the index
SearchRequest(req) ==
    [From |-> (req.Page - 1) * req.Size,
     Size |-> req.Size,
     Sort |-> [field |-> sortField(req.SortBy),
               order |-> IF req.SortOrder = asc THEN "asc" ELSE "desc"],
     Levels |-> req.Levels]

\* elasticsearchLogRepository.Search: the response built from res.Hits.Total
LogSearchResponse(req, total) ==
    [TotalCount |-> total, Page |-> req.Page, Size |-> req.Size]

NoSearchRequest == [From |-> 0, Size |-> 0, Sort |-> [field |-> <<>>, order |-> ""],
                    Levels |-> <<>>]

NoSearchResponse == [TotalCount |-> 0, Page |-> 0, Size |-> 0]

\* the requests a caller may build
SortOrders == {<<>>, asc, <<"A", "S", "C">>, <<"D", "e", "s", "c">>, <<"u", "p">>}

LevelLists ==
    {<<>>, <<(<<"E", "R", "R", "O", "R">>)>>,
     <<(<<"e", "r", "r", "o", "r">>), (<<"W", "a", "r", "n">>)>>}

SortFields ==
    {"", "@timestamp", "level", "component", "application", "source_file",
     "content", "Level"}

LogSearchRequests ==
    {LogSearchRequest(t[1], t[2], levels, sortBy, sortOrder, page, size) :
        t \in {<<1, 2>>, <<2, 1>>, <<0, 1>>, <<1, 0>>, <<1, 1>>},
        levels \in LevelLists, sortBy \in SortFields, sortOrder \in SortOrders,
        page \in {-1, 0, 1, 3}, size \in {-1, 0, 1, 20, 1000, 1001}}

\* what the index reports as res.Hits.Total.Value
HitTotals == {0, 7}

\* logQueryService.SearchLogs on the request drawn
SearchLogsCall ==
    /\ ~search.called
    /\ LET checked == SearchLogs(search.req.StartTime, search.req.EndTime, <<>>)
           req == Normalize(search.req)
       IN  search' =
               IF checked.err # <<>>
               THEN [search EXCEPT !.called = TRUE, !.via = "service", !.err = TRUE]
               ELSE [search EXCEPT !.called = TRUE, !.via = "service",
                                   !.repoCalled = TRUE,
                                   !.repoReq = req,
                                   !.es = SearchRequest(req),
                                   !.resp = LogSearchResponse(req, search.total)]
    /\ UNCHANGED <<tsdb, llm>>
    /\ UNCHANGED <<producerVars, consumerVars, schedulerVars, brokerVars, nlVars,
                   queryVars, extractorVars, managerVars>>

\* elasticsearchLogRepository.Search called without the service, as the
\* natural-language service does
SearchCall ==
    /\ ~search.called
    /\ search' = [search EXCEPT !.called = TRUE, !.via = "repository",
                                !.repoCalled = TRUE,
                                !.repoReq = search.req,
                                !.es = SearchRequest(search.req),
                                !.resp = LogSearchResponse(search.req, search.total)]
    /\ UNCHANGED <<tsdb, llm>>
    /\ UNCHANGED <<producerVars, consumerVars, schedulerVars, brokerVars, nlVars,
                   queryVars, extractorVars, managerVars>>

InitSearchOf(reqs, totals) ==
    \E req \in reqs, total \in totals :
        search = [req |-> req, total |-> total, called |-> FALSE, via |-> "none",
                  err |-> FALSE, repoCalled |-> FALSE, repoReq |-> req,
                  es |-> NoSearchRequest, resp |-> NoSearchResponse]

InitSearch == InitSearchOf({LogSearchRequest(0, 0, <<>>, "", <<>>, 0, 0)}, {0})

----------------------------------------------------------------------------
(* LLM service.  A response text is a sequence of tokens: the braces, "p"   *)
(* for prose or a code fence, and the members of a JSON object, commas      *)
(* included: "k" a field of LLMAnalysisResult with a value of its type, "u" *)
(* a field the struct does not have, "t" a field with a value of another    *)
(* type, "n" the name of a field whose value is the object that follows.    *)

TextTokens == {"{", "}", "p", "k", "u", "t", "n"}

\* strings.Index(raw, "{"): 0 stands for -1
RECURSIVE Index(_, _, _)
Index(raw, tok, i) ==
    IF i > Len(raw) THEN 0
    ELSE IF raw[i] = tok THEN i
    ELSE Index(raw, tok, i + 1)

\* strings.LastIndex(raw, "}"): 0 stands for -1
RECURSIVE LastIndex(_, _, _)
LastIndex(raw, tok, i) ==
    IF i < 1 THEN 0
    ELSE IF raw[i] = tok THEN i
    ELSE LastIndex(raw, tok, i - 1)

\* the JSON parser on an object that starts at i: the position after it, 0
\* when there is none
RECURSIVE ParseObject(_, _)
RECURSIVE ParseMembers(_, _)
ParseObject(text, i) ==
    IF i <= Len(text) /\ text[i] = "{" THEN ParseMembers(text, i + 1) ELSE 0

ParseMembers(text, i) ==
    IF i > Len(text) THEN 0
    ELSE IF text[i] = "}" THEN i + 1
    ELSE IF text[i] \in {"k", "u", "t"} THEN ParseMembers(text, i + 1)
    ELSE IF text[i] = "n"
    THEN IF ParseObject(text, i + 1) = 0 THEN 0
         ELSE ParseMembers(text, ParseObject(text, i + 1))
    ELSE 0

\* json.Unmarshal(potentialJson, &js) == nil, js a map
IsJsonObject(text) == ParseObject(text, 1) = Len(text) + 1

\* an extractor that stops at the first closing brace
cleanLLMJsonOutputFirstClose(raw) ==
    LET startIndex == Index(raw, "{", 1)
        endIndex == Index(raw, "}", 1)
    IN  IF startIndex = 0 THEN <<>>
        ELSE IF endIndex = 0 \/ endIndex < startIndex THEN <<>>
        ELSE IF IsJsonObject(SubSeq(raw, startIndex, endIndex))
        THEN SubSeq(raw, startIndex, endIndex)
        ELSE <<>>

\* cleanLLMJsonOutput; the empty string is <<>>
cleanLLMJsonOutput(raw) ==
    LET startIndex == Index(raw, "{", 1)
        endIndex == LastIndex(raw, "}", Len(raw))
    IN  IF startIndex = 0 THEN <<>>
        ELSE IF endIndex = 0 \/ endIndex < startIndex THEN <<>>
        ELSE IF IsJsonObject(SubSeq(raw, startIndex, endIndex))
        THEN SubSeq(raw, startIndex, endIndex)
        ELSE <<>>

\* decoder.Decode(&analysisResult) with DisallowUnknownFields: [err, analysis];
\* the member "k" gives the intent and the time range of a log query
Decode(cleanedJson) ==
    IF \E i \in DOMAIN cleanedJson : cleanedJson[i] \in {"u", "t"}
    THEN [err |-> TRUE, analysis |-> Analysis("", <<>>, "", "")]
    ELSE IF \E i \in DOMAIN cleanedJson : cleanedJson[i] = "k"
    THEN [err |-> FALSE, analysis |-> Analysis("query_log", <<>>, "t1", "t2")]
    ELSE [err |-> FALSE, analysis |-> Analysis("", <<>>, "", "")]

\* AnalyzeQueryWithHistory from the generated text on: [err, cleaned, analysis]
AnalyzeQueryWithHistory(generatedText) ==
    LET cleanedJson == cleanLLMJsonOutput(generatedText)
    IN  IF cleanedJson = <<>>
        THEN [err |-> TRUE, cleaned |-> cleanedJson,
              analysis |-> Analysis("", <<>>, "", "")]
        ELSE [cleaned |-> cleanedJson] @@ Decode(cleanedJson)

\* a first request of a conversation whose LLM response holds the text llm.text
AnalyzeCall ==
    /\ ~llm.called
    /\ LET a == AnalyzeQueryWithHistory(llm.text)
           rc == ResolveConversation(NoConversations, <<>>)
           out == ProcessNaturalLanguageQuery(rc, "q", ~a.err, a.analysis, TRUE)
       IN  llm' = [text |-> llm.text, called |-> TRUE, cleaned |-> a.cleaned,
                   err |-> a.err, resp |-> out.resp,
                   turns |-> Len(out.store[rc.conversationId])]
    /\ UNCHANGED <<tsdb, search>>
    /\ UNCHANGED <<producerVars, consumerVars, schedulerVars, brokerVars, nlVars,
                   queryVars, extractorVars, managerVars>>

InitLLMOf(texts) ==
    \E text \in texts :
        llm = [text |-> text, called |-> FALSE, cleaned |-> <<>>, err |-> FALSE,
               resp |-> NoResponse, turns |-> 0]

InitLLM == InitLLMOf({<<>>})

----------------------------------------------------------------------------
(* Specifications *)

Init ==
    /\ InitProducer({[p \in Paths |-> <<>>]})
    /\ InitConsumer({<<>>})
    /\ InitScheduler
    /\ InitBroker({<<>>})
    /\ InitNL
    /\ InitQuery
    /\ InitExtractor
    /\ InitManager
    /\ InitTimeseries
    /\ InitSearch
    /\ InitLLM

\* one invocation at a time, every outcome of every I/O step, files that grow
\* and rotate between cycles
Next ==
    /\ \/ TryLock("tick1")
       \/ Return("tick1")
       \/ \E io \in LoadOutcomes : LoadAndFind("tick1", io)
       \/ \E outcome \in FileOutcomes, sendOk \in BOOLEAN :
              ProcessFile("tick1", outcome, sendOk)
       \/ \E sendOk \in BOOLEAN : FinalFlush("tick1", sendOk)
       \/ \E ok \in BOOLEAN : SaveOpenTemp("tick1", ok)
       \/ \E ok \in BOOLEAN : SaveWriteTemp("tick1", ok)
       \/ \E ok \in BOOLEAN : SaveRename("tick1", ok)
       \/ \E p \in Paths, b \in Alphabet : AppendByte(p, b, MaxBytes)
       \/ \E p \in Paths : Truncate(p)
    /\ UNCHANGED <<consumerVars, schedulerVars, brokerVars, nlVars, queryVars,
                   extractorVars, managerVars,
                   storeVars>>

Spec == Init /\ [][Next]_vars

\* overlapping ticks and crashes
NextTicks ==
    /\ \/ \E i \in Invocations : TryLock(i)
       \/ \E i \in Invocations : Return(i)
       \/ \E i \in Invocations, io \in LoadOutcomes : LoadAndFind(i, io)
       \/ \E i \in Invocations, outcome \in FileOutcomes, sendOk \in BOOLEAN :
              ProcessFile(i, outcome, sendOk)
       \/ \E i \in Invocations, sendOk \in BOOLEAN : FinalFlush(i, sendOk)
       \/ \E i \in Invocations, ok \in BOOLEAN : SaveOpenTemp(i, ok)
       \/ \E i \in Invocations, ok \in BOOLEAN : SaveWriteTemp(i, ok)
       \/ \E i \in Invocations, ok \in BOOLEAN : SaveRename(i, ok)
       \/ Crash
       \/ \E p \in Paths, b \in Alphabet : AppendByte(p, b, TickBytes)
    /\ UNCHANGED <<consumerVars, schedulerVars, brokerVars, nlVars, queryVars,
                   extractorVars, managerVars,
                   storeVars>>

SpecTicks == Init /\ [][NextTicks]_vars

\* a cycle in which every step succeeds
CleanCycle ==
    \/ TryLock("tick1")
    \/ Return("tick1")
    \/ LoadAndFind("tick1", "ok")
    \/ ProcessFile("tick1", "ok", TRUE)
    \/ FinalFlush("tick1", TRUE)
    \/ SaveOpenTemp("tick1", TRUE)
    \/ SaveWriteTemp("tick1", TRUE)
    \/ SaveRename("tick1", TRUE)

\* repeated cycles without any failure over files that only grow
NextAppend ==
    /\ \/ CleanCycle
       \/ \E p \in Paths, b \in Alphabet : AppendByte(p, b, MaxBytes)
    /\ UNCHANGED <<consumerVars, schedulerVars, brokerVars, nlVars, queryVars,
                   extractorVars, managerVars,
                   storeVars>>

SpecAppend == Init /\ [][NextAppend]_vars

\* cycles over files of any content, up to ReadLen bytes in all
InitRead ==
    /\ InitProducer({fs \in [Paths -> SeqsUpTo(Alphabet, ReadLen)] :
                        Len(fs[File1]) + Len(fs[File2]) <= ReadLen})
    /\ InitConsumer({<<>>})
    /\ InitScheduler
    /\ InitBroker({<<>>})
    /\ InitNL
    /\ InitQuery
    /\ InitExtractor
    /\ InitManager
    /\ InitTimeseries
    /\ InitSearch
    /\ InitLLM

NextRead ==
    /\ CleanCycle
    /\ UNCHANGED <<consumerVars, schedulerVars, brokerVars, nlVars, queryVars,
                   extractorVars, managerVars,
                   storeVars>>

SpecRead == InitRead /\ [][NextRead]_vars

\* the consumer over a partition of up to MaxMsgs messages
InitConsume ==
    /\ InitProducer({[p \in Paths |-> <<>>]})
    /\ InitConsumer(SeqsUpTo(Values, MaxMsgs))
    /\ InitScheduler
    /\ InitBroker({<<>>})
    /\ InitNL
    /\ InitQuery
    /\ InitExtractor
    /\ InitManager
    /\ InitTimeseries
    /\ InitSearch
    /\ InitLLM

NextConsume ==
    /\ \/ RunLoop
       \/ \E outcome \in FetchOutcomes : Fetch(outcome)
       \/ \E added \in SUBSET (1..Len(topic)), flushOk \in BOOLEAN :
              StoreLogsStep(added, flushOk)
       \/ \E outcome \in CommitOutcomes : CommitStep(outcome)
       \/ Cancel
       \/ Restart
    /\ UNCHANGED <<producerVars, schedulerVars, brokerVars, nlVars, queryVars,
                   extractorVars, managerVars,
                   storeVars>>

SpecConsume == InitConsume /\ [][NextConsume]_vars

\* the scheduler with its stop hook, over cycles that succeed
NextStop ==
    \/ \E i \in Invocations : CronTick(i)
    \/ \E i \in Invocations : JobSpawn(i)
    \/ OnStopBegin
    \/ \E how \in {"graceful", "deadline"} : OnStopEnd(how)
    \/ /\ \E i \in Invocations :
              \/ Return(i)
              \/ LoadAndFind(i, "ok")
              \/ ProcessFile(i, "ok", TRUE)
              \/ FinalFlush(i, TRUE)
              \/ SaveOpenTemp(i, TRUE)
              \/ SaveWriteTemp(i, TRUE)
              \/ SaveRename(i, TRUE)
       /\ UNCHANGED <<consumerVars, schedulerVars, brokerVars, nlVars, queryVars,
                   extractorVars, managerVars,
                   storeVars>>

SpecStop == Init /\ [][NextStop]_vars

\* one call of Produce on a batch of up to MaxBatch entries
InitProduce ==
    /\ InitProducer({[p \in Paths |-> <<>>]})
    /\ InitConsumer({<<>>})
    /\ InitScheduler
    /\ InitBroker(SeqsUpTo(BatchEntries, MaxBatch))
    /\ InitNL
    /\ InitQuery
    /\ InitExtractor
    /\ InitManager
    /\ InitTimeseries
    /\ InitSearch
    /\ InitLLM

NextProduce ==
    \/ \E outcome \in WriteOutcomes : Produce(outcome)
    \/ \E ok \in BOOLEAN : BrokerWrite(ok)

SpecProduce == InitProduce /\ [][NextProduce]_vars

\* up to MaxRequests natural-language requests, one after another
NextNL ==
    \E reqId \in RequestIds, llmOk \in BOOLEAN, analysis \in Analyses, repoOk \in BOOLEAN :
        HandleNLVQuery(reqId, llmOk, analysis, repoOk)

SpecNL == Init /\ [][NextNL]_vars

\* natural-language requests served by concurrent handlers, every
\* interleaving of their calls on the conversation store
NextConcurrent ==
    \E h \in Handlers :
        \/ \E reqId \in ReturnedIds : BeginRequest(h, reqId)
        \/ \E llmOk \in BOOLEAN, analysis \in {Analysis("query_log", <<>>, "t1", "t2"),
                                               Analysis("unknown", <<>>, "t1", "t2")} :
               AnalyzeRequest(h, llmOk, analysis)
        \/ AddUserTurn(h)
        \/ AddModelTurn(h)

SpecConcurrent == Init /\ [][NextConcurrent]_vars

\* query requests on the four query endpoints, every answer of the store
NextQuery ==
    \E repoErr \in RepoErrors :
        \/ \E q \in BaseQueries : GetLogs(q, repoErr)
        \/ \E q \in BaseQueries : GetSummaryMetrics(q, repoErr)
        \/ \E q \in TimeseriesQueries : GetTimeseriesMetrics(q, repoErr)
        \/ \E q \in BaseQueries : GetApplicationsList(q, repoErr)

SpecQuery == Init /\ [][NextQuery]_vars

\* calls of the extractor on nil and on every entry of ExtractorEntries
NextExtract ==
    \E logEntry \in {<<>>} \cup {<<e>> : e \in ExtractorEntries} : Extract(logEntry)

SpecExtract == Init /\ [][NextExtract]_vars

\* SaveState and LoadState called in any order on a state file that starts
\* absent or with zero length
InitState ==
    /\ files = [p \in Paths |-> <<>>]
    /\ stateFile \in {Absent, Empty}
    /\ tmpFile = Absent
    /\ processLock = FALSE
    /\ pc = [i \in Invocations |-> "idle"]
    /\ result = [i \in Invocations |-> "none"]
    /\ cyc = NoLocals
    /\ covered = [p \in Paths |-> {}]
    /\ InitConsumer({<<>>})
    /\ InitScheduler
    /\ InitBroker({<<>>})
    /\ InitNL
    /\ InitQuery
    /\ InitExtractor
    /\ InitManager
    /\ InitTimeseries
    /\ InitSearch
    /\ InitLLM

NextState ==
    \/ \E state \in ManagerStates, outcome \in {"ok", "write_fails", "rename_fails"} :
           SaveState(state, outcome)
    \/ \E readFails \in BOOLEAN : ManagerLoad(readFails)

SpecState == InitState /\ [][NextState]_vars

\* time-series queries on a table of up to MaxEvents rows
InitQueryTimeseries ==
    /\ InitProducer({[p \in Paths |-> <<>>]})
    /\ InitConsumer({<<>>})
    /\ InitScheduler
    /\ InitBroker({<<>>})
    /\ InitNL
    /\ InitQuery
    /\ InitExtractor
    /\ InitManager
    /\ InitTimeseriesTable(SeqsUpTo(StoredEvents, MaxEvents))
    /\ InitSearch
    /\ InitLLM

NextTimeseries == \E req \in TimeseriesRequests : QueryTimeseries(req)

SpecTimeseries == InitQueryTimeseries /\ [][NextTimeseries]_vars

\* the values of LOG_PROCESSOR_MAX_BATCH_WAIT
ConfiguredWaits ==
    {Zero64, Milliseconds(500), Seconds(1), Seconds(5), Seconds(9), Seconds(10),
     Seconds(60)}

\* the time a message takes to arrive
Delays == {Zero64, Milliseconds(200), Seconds(1), Seconds(3), Seconds(6)}

InitWait ==
    /\ InitProducer({[p \in Paths |-> <<>>]})
    /\ InitConsumerOf({<<>>}, ConfiguredWaits)
    /\ InitScheduler
    /\ InitBroker({<<>>})
    /\ InitNL
    /\ InitQuery
    /\ InitExtractor
    /\ InitManager
    /\ InitTimeseries
    /\ InitSearch
    /\ InitLLM

\* batch builds on the clock, for every configured wait
NextWait ==
    /\ \/ \E arrives \in BOOLEAN, delay \in Delays : FetchTimed(arrives, delay)
       \/ StartBatch
    /\ UNCHANGED <<producerVars, schedulerVars, brokerVars, nlVars, queryVars,
                   extractorVars, managerVars, storeVars>>

SpecWait == InitWait /\ [][NextWait]_vars

\* summary queries on a table of up to MaxEvents rows, every outcome of the
\* two count queries
NextSummary ==
    \E s \in {0, 1}, apps \in {{}, {"application_1"}}, logFails, errorFails \in BOOLEAN :
        QuerySummary(MetricSummaryRequest(s, 6, apps), logFails, errorFails)

SpecSummary == InitQueryTimeseries /\ [][NextSummary]_vars

\* the time-series requests of the HTTP endpoint: known and unknown intervals
\* and groupings
GroupingQueries ==
    [startTime : {<<"t1">>}, endTime : {<<"t2">>}, metricName : {<<"log_event">>},
     interval : {<<>>, <<"1 minute">>, <<"1 hour">>, <<"2 hour">>},
     groupBy : {<<>>, <<"">>, <<"total">>, <<"level">>, <<"host">>}]

\* the group_by arrays of the plans the LLM may return
PlanGroupBys ==
    {<<>>, <<(<<"application">>)>>, <<(<<"tags.", "level">>)>>, <<(<<"host">>)>>,
     <<(<<"tags.", "host">>)>>, <<(<<"time_bucket">>), <<"application">>>>,
     <<(<<"application">>), <<"tags.", "level">>>>}

\* the time ranges of the plans, in hours
PlanHours == {1, 10, 40, 100, 200}

\* the rows of the table the requests of both paths are served from
MaxRows == 1

InitGrouping ==
    /\ InitProducer({[p \in Paths |-> <<>>]})
    /\ InitConsumer({<<>>})
    /\ InitScheduler
    /\ InitBroker({<<>>})
    /\ InitNL
    /\ InitQuery
    /\ InitExtractor
    /\ InitManager
    /\ InitTimeseriesTable(SeqsUpTo(StoredEvents, MaxRows))
    /\ InitSearch
    /\ InitLLM

\* time-series requests on both paths on a table of up to MaxRows rows
NextGrouping ==
    \/ \E q \in GroupingQueries : GetTimeseriesMetricsOnTable(q)
    \/ \E groupBy \in PlanGroupBys, hours \in PlanHours :
           handleMetricQueryOnTable(groupBy, hours)

SpecGrouping == InitGrouping /\ [][NextGrouping]_vars

\* one log search on a request drawn from LogSearchRequests, through the
\* service or on the repository
InitSearchLogs ==
    /\ InitProducer({[p \in Paths |-> <<>>]})
    /\ InitConsumer({<<>>})
    /\ InitScheduler
    /\ InitBroker({<<>>})
    /\ InitNL
    /\ InitQuery
    /\ InitExtractor
    /\ InitManager
    /\ InitTimeseries
    /\ InitSearchOf(LogSearchRequests, HitTotals)
    /\ InitLLM

NextSearch == SearchLogsCall \/ SearchCall

SpecSearch == InitSearchLogs /\ [][NextSearch]_vars

\* one analysis of a response text of up to MaxText tokens
InitAnalyze ==
    /\ InitProducer({[p \in Paths |-> <<>>]})
    /\ InitConsumer({<<>>})
    /\ InitScheduler
    /\ InitBroker({<<>>})
    /\ InitNL
    /\ InitQuery
    /\ InitExtractor
    /\ InitManager
    /\ InitTimeseries
    /\ InitSearch
    /\ InitLLMOf(SeqsUpTo(TextTokens, MaxText))

NextAnalyze == AnalyzeCall

SpecAnalyze == InitAnalyze /\ [][NextAnalyze]_vars

\* the consumer goroutine keeps running: each step of Run and processBatch
\* that can be taken is taken (a fetch ends at its deadline at the latest,
\* StoreLogs and CommitMessages return, the pause lasts one second)
FairConsume ==
    /\ WF_vars(RunLoop /\ UNCHANGED <<producerVars, schedulerVars, brokerVars, nlVars,
                                      queryVars, extractorVars, managerVars, storeVars>>)
    /\ WF_vars(/\ \E outcome \in FetchOutcomes : Fetch(outcome)
               /\ UNCHANGED <<producerVars, schedulerVars, brokerVars, nlVars,
                              queryVars, extractorVars, managerVars, storeVars>>)
    /\ WF_vars(/\ \E added \in SUBSET (1..Len(topic)), flushOk \in BOOLEAN :
                      StoreLogsStep(added, flushOk)
               /\ UNCHANGED <<producerVars, schedulerVars, brokerVars, nlVars,
                              queryVars, extractorVars, managerVars, storeVars>>)
    /\ WF_vars(/\ \E outcome \in CommitOutcomes : CommitStep(outcome)
               /\ UNCHANGED <<producerVars, schedulerVars, brokerVars, nlVars,
                              queryVars, extractorVars, managerVars, storeVars>>)

SpecConsumeFair == SpecConsume /\ FairConsume

\* cycles over files of any content, up to DispatchLen bytes in all, in which
\* a read or a send may fail
NextDispatch ==
    /\ \/ TryLock("tick1")
       \/ Return("tick1")
       \/ LoadAndFind("tick1", "ok")
       \/ \E outcome \in FileOutcomes, sendOk \in BOOLEAN :
              ProcessFile("tick1", outcome, sendOk)
       \/ \E sendOk \in BOOLEAN : FinalFlush("tick1", sendOk)
       \/ SaveOpenTemp("tick1", TRUE)
       \/ SaveWriteTemp("tick1", TRUE)
       \/ SaveRename("tick1", TRUE)
    /\ UNCHANGED <<consumerVars, schedulerVars, brokerVars, nlVars, queryVars,
                   extractorVars, managerVars,
                   storeVars>>

\* cycles over files of any content, up to DispatchLen bytes in all, whose
\* ctx may be cancelled while a file is read
NextCancel ==
    /\ \/ TryLock("tick1")
       \/ Return("tick1")
       \/ LoadAndFind("tick1", "ok")
       \/ \E outcome \in FileOutcomes, sendOk \in BOOLEAN :
              ProcessFile("tick1", outcome, sendOk)
       \/ \E k \in 1..(DispatchLen + 1) : ProcessFileCancelled("tick1", k)
       \/ \E sendOk \in BOOLEAN : FinalFlush("tick1", sendOk)
       \/ SaveOpenTemp("tick1", TRUE)
       \/ SaveWriteTemp("tick1", TRUE)
       \/ SaveRename("tick1", TRUE)
    /\ UNCHANGED <<consumerVars, schedulerVars, brokerVars, nlVars, queryVars,
                   extractorVars, managerVars,
                   storeVars>>

InitDispatch ==
    /\ InitProducer({fs \in [Paths -> SeqsUpTo(Alphabet, DispatchLen)] :
                        Len(fs[File1]) + Len(fs[File2]) <= DispatchLen})
    /\ InitConsumer({<<>>})
    /\ InitScheduler
    /\ InitBroker({<<>>})
    /\ InitNL
    /\ InitQuery
    /\ InitExtractor
    /\ InitManager
    /\ InitTimeseries
    /\ InitSearch
    /\ InitLLM

SpecDispatch == InitDispatch /\ [][NextDispatch]_vars

SpecCancel == InitDispatch /\ [][NextCancel]_vars

\* cycles without any failure over files that grow up to SplitLen bytes in all
NextSplit ==
    /\ \/ CleanCycle
       \/ \E p \in Paths, b \in Alphabet : AppendByte(p, b, SplitLen)
    /\ UNCHANGED <<consumerVars, schedulerVars, brokerVars, nlVars, queryVars,
                   extractorVars, managerVars,
                   storeVars>>

SpecSplit == Init /\ [][NextSplit]_vars

----------------------------------------------------------------------------
(* Properties *)

\* the offsets the state file holds
StoredOffsets == LoadState(stateFile, FALSE).state

Owner(i) == cyc.owner = i

\* C1: when Produce returns an error during a cycle, the cycle does not
\* persist an advanced offset for any file whose entries were in the failed
\* batch: after the cycle the stored offset of such a file is the one the
\* cycle loaded.
C1_FailedPublishKeepsOffset ==
    \A i \in Invocations :
        (pc[i] \in {"done", "failed"} /\ Owner(i)) =>
            \A f \in cyc.failedFiles :
                Get(StoredOffsets, f) = Get(cyc.currentState, f)

\* C2: within an iteration CommitMessages is called only right after a
\* StoreLogs call on the same batch that returned success; when StoreLogs
\* returns an error the iteration makes no commit and returns that error.
C2_CommitAfterStore ==
    /\ \A k \in DOMAIN calls :
           calls[k].op = "CommitMessages" =>
               /\ k > 1
               /\ calls[k - 1].op = "StoreLogs"
               /\ calls[k - 1].ok
               /\ calls[k].msgs = batch.originalMessages
               /\ Range(calls[k - 1].msgs) =
                      {o \in Range(batch.originalMessages) : topic[o] = "json"}
    /\ (\E k \in DOMAIN calls : calls[k].op = "StoreLogs" /\ ~calls[k].ok) =>
           /\ \A k \in DOMAIN calls : calls[k].op # "CommitMessages"
           /\ cpc \in {"loop", "stopped"}
           /\ lastErr = "store"

C2_Witness ==
    \E k \in DOMAIN calls :
        /\ calls[k].op = "CommitMessages"
        /\ calls[k].ok
        /\ Len(calls[k].msgs) >= 2

\* C3: a message of a batch whose StoreLogs failed is processed again before
\* its offset is committed: no decodable message lies at or below the
\* committed offset without being in the index.
C3_FailedBatchReprocessed ==
    \A o \in storeFailed :
        (o <= committed /\ topic[o] = "json") => o \in indexed

\* C4: an invocation of ProcessLogs that starts while another one is in its
\* cycle returns nil without touching the disk, the broker or the other
\* cycle's locals, and at no moment are two invocations inside the cycle.
C4_SingleFlight ==
    /\ [](Cardinality({i \in Invocations : pc[i] \in InCycle}) <= 1)
    /\ [](processLock <=> (\E i \in Invocations : pc[i] \in InCycle))
    /\ [][\A i \in Invocations :
            /\ (/\ pc[i] = "idle"
                /\ pc'[i] # "idle"
                /\ \E j \in Invocations \ {i} : pc[j] \in InCycle)
                   => /\ pc'[i] = "skipped"
                      /\ result'[i] = "nil"
                      /\ UNCHANGED <<files, stateFile, tmpFile, covered, cyc, processLock>>
            /\ pc[i] = "skipped" => pc'[i] \in {"skipped", "idle"}]_vars

C4_Witness ==
    /\ pc["tick1"] \in InCycle
    /\ pc["tick2"] = "skipped"
    /\ result["tick2"] = "nil"

\* C5: for every file read in a cycle that saved its state, the stored offset
\* after the cycle is at least the one before it, unless the file was shorter
\* than the stored offset: then the read started at 0 and the new offset is
\* the number of bytes read from 0, the size of the file.
C5_OffsetMonotone ==
    \A i \in Invocations :
        (pc[i] = "done" /\ Owner(i)) =>
            \A f \in DOMAIN cyc.reads :
                LET rd == cyc.reads[f]
                    old == Get(cyc.currentState, f)
                    new == Get(StoredOffsets, f)
                IN  IF rd.size < old
                    THEN ~rd.err => (rd.from = 0 /\ new = rd.size)
                    ELSE new >= old

\* C6: the state file never holds a partial document: while SaveState runs,
\* up to the rename, it holds what the cycle loaded and the document is
\* complete in the temporary file before the rename; after the rename it
\* holds the new mapping.  A crash leaves the disk as it is, so this covers
\* a crash at every point.
C6_AtomicSave ==
    /\ stateFile.kind \in {"absent", "json"}
    /\ \A i \in Invocations :
           /\ pc[i] \in {"save", "write", "rename"} =>
                  LoadState(stateFile, FALSE) = [state |-> cyc.currentState, err |-> FALSE]
           /\ pc[i] = "rename" => tmpFile = Json(Marshal(cyc.newState))
           /\ (pc[i] = "done" /\ Owner(i)) => stateFile = Json(Marshal(cyc.newState))

\* a crash between the write of the temporary file and the rename, over an
\* earlier state file
C6_Witness ==
    /\ Quiet
    /\ tmpFile.kind = "json"
    /\ stateFile.kind = "json"
    /\ tmpFile # stateFile

\* C7: with cycles that all succeed over files that only grow, every byte
\* other than a line terminator that lies below the stored offset of its
\* file (and so is never read again) is in the raw text of an entry handed
\* to the producer.
C7_NoSilentLoss ==
    \A f \in Paths :
        Get(StoredOffsets, f) <= Len(files[f]) =>
            \A p \in 1..Get(StoredOffsets, f) :
                files[f][p] # NL => p \in covered[f]

\* C8: an undecodable message is never handed to StoreLogs, and once the
\* StoreLogs of its batch has succeeded and the iteration is over, its handle
\* was passed to CommitMessages, whatever else the batch holds.
C8_UndecodableCommitted ==
    /\ \A k \in DOMAIN calls :
           calls[k].op = "StoreLogs" =>
               \A j \in DOMAIN calls[k].msgs : topic[calls[k].msgs[j]] = "json"
    /\ (cpc = "loop" /\ \E k \in DOMAIN calls : calls[k].op = "StoreLogs" /\ calls[k].ok) =>
           \E k \in DOMAIN calls :
               /\ calls[k].op = "CommitMessages"
               /\ Range(batch.originalMessages) \subseteq Range(calls[k].msgs)

\* C9: CommitMessages is called only after a bulk insert of the batch's
\* metric events into the time-series store has succeeded.
C9_MetricsBeforeCommit ==
    \A k \in DOMAIN calls :
        calls[k].op = "CommitMessages" =>
            \E j \in 1..(k - 1) : calls[j].op = "StoreMetricEvents" /\ calls[j].ok

IsHeaderLine(line) == ParseHeader(line).isHeader

HeaderLines(lines) == {k \in DOMAIN lines : IsHeaderLine(lines[k])}

\* the k-th smallest member of a set of numbers
Nth(S, k) == CHOOSE x \in S : Cardinality({y \in S : y <= x}) = k

\* the last line of the group that the header at index h opens
GroupEnd(lines, h) ==
    IF \E g \in HeaderLines(lines) : g > h
    THEN (CHOOSE g \in HeaderLines(lines) :
              g > h /\ \A g2 \in HeaderLines(lines) : g2 > h => g <= g2) - 1
    ELSE Len(lines)

RECURSIVE JoinNL(_)
JoinNL(ls) ==
    IF ls = <<>> THEN <<>>
    ELSE IF Len(ls) = 1 THEN ls[1]
    ELSE ls[1] \o <<NL>> \o JoinNL(Tail(ls))

\* C10: when the lines of a read begin with a header, there is one entry per
\* header line, in order; its raw text is the header line and the
\* continuation lines after it joined by a newline, its content the header's
\* remainder and the same continuation lines joined by a newline; none is an
\* ORPHAN.  An ORPHAN entry occurs only in a read that begins with a
\* continuation line.
C10_HeaderGroups ==
    \A f \in DOMAIN cyc.reads :
        LET lines == cyc.reads[f].lines
            entries == cyc.reads[f].entries
            H == HeaderLines(lines)
        IN  /\ (lines # <<>> /\ IsHeaderLine(lines[1])) =>
                   /\ Len(entries) = Cardinality(H)
                   /\ \A k \in DOMAIN entries :
                          LET h == Nth(H, k)
                              e == GroupEnd(lines, h)
                          IN  /\ entries[k].Raw = JoinNL(SubSeq(lines, h, e))
                              /\ entries[k].Content =
                                     JoinNL(<<ParseHeader(lines[h]).InitialContent>>
                                            \o SubSeq(lines, h + 1, e))
                              /\ entries[k].Component # "ORPHAN"
            /\ (\E k \in DOMAIN entries : entries[k].Component = "ORPHAN") =>
                   (lines # <<>> /\ ~IsHeaderLine(lines[1]))

\* a read of two header lines, the first followed by a continuation line
C10_Witness ==
    \E f \in DOMAIN cyc.reads :
        LET lines == cyc.reads[f].lines
        IN  /\ Len(lines) >= 3
            /\ IsHeaderLine(lines[1])
            /\ ~IsHeaderLine(lines[2])
            /\ IsHeaderLine(lines[3])
            /\ Len(cyc.reads[f].entries) = 2

RECURSIVE LineBytes(_)
LineBytes(lines) ==
    IF lines = <<>> THEN 0 ELSE Len(Head(lines)) + 1 + LineBytes(Tail(lines))

\* C12: a file whose read failed keeps the offset the cycle loaded, in the
\* new state and in the saved one, and none of its entries is accumulated or
\* handed to the producer; the cycle still visits every other file; a file
\* read without error gets the offset advanced over all the lines read,
\* whatever the number of entries.
C12_FailedFileKeepsOffset ==
    /\ [](\A i \in Invocations :
            (pc[i] \in {"files", "save", "write", "rename", "done"} /\ Owner(i)) =>
                /\ \A f \in DOMAIN cyc.reads :
                       LET rd == cyc.reads[f]
                       IN  IF rd.err
                           THEN /\ Get(cyc.newState, f) = Get(cyc.currentState, f)
                                /\ f \notin SourceFiles(cyc.allLogs)
                                /\ pc[i] = "done" =>
                                       Get(StoredOffsets, f) = Get(cyc.currentState, f)
                           ELSE /\ Get(cyc.newState, f) = rd.from + LineBytes(rd.lines)
                                /\ pc[i] = "done" =>
                                       Get(StoredOffsets, f) = rd.from + LineBytes(rd.lines)
                /\ pc[i] # "files" => DOMAIN cyc.reads = Paths)
    /\ [][\A f \in Paths :
            (covered'[f] \ covered[f] # {}) =>
                (f \in DOMAIN cyc'.reads /\ ~cyc'.reads[f].err)]_vars

\* the first file failed after an earlier cycle stored an offset for it, the
\* second was read and its state saved
C12_Witness ==
    /\ pc["tick1"] = "done"
    /\ File1 \in DOMAIN cyc.reads
    /\ cyc.reads[File1].err
    /\ Get(cyc.currentState, File1) > 0
    /\ File2 \in DOMAIN cyc.reads
    /\ ~cyc.reads[File2].err
    /\ Len(cyc.reads[File2].entries) > 0
    /\ Get(StoredOffsets, File2) > 0

\* C13: after the stop hook has begun no tick is accepted, and the hook
\* reports a graceful stop only when no ProcessLogs cycle started by an
\* earlier tick is still running.
C13_StopWaitsForCycle ==
    /\ stopHook.at # "none" => sched = "stopped"
    /\ stopHook.at = "graceful" => stopHook.inFlight = {}

Serializes(e) == e.Timestamp \in {"in_range"}

\* C14: what Produce passes to the writer is one message per entry of the
\* batch that serializes, in input order, with key the entry's application
\* and value its JSON; an entry that does not serialize adds no message.
C14_OneMessagePerEntry ==
    produce.at = "returned" =>
        LET ok == SelectSeq(produce.logs, Serializes)
        IN  produce.handed =
                [j \in DOMAIN ok |-> [Key |-> <<ok[j].Application>>, Value |-> <<ok[j]>>]]

\* C15: a message whose broker write failed makes Produce return an error;
\* when Produce returned nil every message it passed on is written to the
\* broker once the writer has nothing left to send.
C15_WriteFailureReturned ==
    /\ writer.lost # <<>> => produce.result = "err"
    /\ (produce.result = "nil" /\ writer.queue = <<>>) =>
           writer.written = produce.handed

\* the step is a natural-language request
Served == nl'.n = nl.n + 1

\* C16: a request without a conversation id, with the empty id or with an id
\* the store does not know gets a newly made conversation with empty
\* history, and that new id is the one given to the LLM call, used for the
\* turns and returned; a request with a known id gets exactly the stored
\* turns of that conversation and keeps its id.
C16_ConversationResolved ==
    [][Served =>
          LET reqId == nl'.req
              cid == nl'.conversationId
          IN  /\ IF reqId = <<>> \/ reqId[1] = <<>> \/ reqId[1] \notin DOMAIN convos
                 THEN /\ cid \notin DOMAIN convos
                      /\ cid # <<>>
                      /\ nl'.history = <<>>
                 ELSE /\ cid = reqId[1]
                      /\ nl'.history = convos[cid]
              /\ cid \in DOMAIN convos'
              /\ \A c \in DOMAIN convos : c # cid => convos'[c] = convos[c]
              /\ DOMAIN convos' = DOMAIN convos \cup {cid}
              /\ nl'.llmOk => Len(convos'[cid]) = Len(nl'.history) + 2
              /\ nl'.status = "200" => nl'.resp.ConversationId = cid]_vars

\* a second request that continues the conversation of the first
C16_Witness ==
    /\ nl.n = 2
    /\ nl.req # <<>>
    /\ nl.conversationId = nl.req[1]
    /\ Len(nl.history) = 2
    /\ nl.resp.ConversationId = nl.conversationId

\* C17: a request whose LLM analysis succeeds appends to its conversation the
\* user text as a user turn and then the analysis as a model turn, whatever
\* the intent and the time range; a conversation that served n such requests
\* holds 2n turns, user and model alternating.
C17_TwoTurnsPerRequest ==
    /\ [](\A c \in DOMAIN convos :
            /\ Len(convos[c]) = 2 * nl.served[c]
            /\ \A k \in DOMAIN convos[c] :
                   convos[c][k].Role = IF k % 2 = 1 THEN "user" ELSE "model")
    /\ [][(Served /\ nl'.llmOk) =>
            convos'[nl'.conversationId] =
                nl'.history \o <<[Role |-> "user", Content |-> [text |-> "q"]],
                                 [Role |-> "model", Content |-> [json |-> nl'.analysis]]>>]_vars

\* two analysed requests on one conversation, the second with an intent the
\* service does not support
C17_Witness ==
    /\ nl.n = 2
    /\ nl.llmOk
    /\ nl.analysis.Intent = "unknown"
    /\ Len(convos[nl.conversationId]) = 4

\* C18: every request is answered with status 200; when the LLM fails, the
\* intent is unknown, a time bound does not parse, the end is before the
\* start, the plan lacks a field or the repository fails, the response has
\* resultType error, a message and the conversation id.
C18_NeverInternalError ==
    nl.n > 0 =>
        /\ nl.status = "200"
        /\ (\/ ~nl.llmOk
            \/ nl.analysis.Intent \notin {"query_metric", "query_log"}
            \/ InvalidRange(nl.analysis)
            \/ (nl.analysis.Intent = "query_metric" /\ nl.analysis.MetricName = <<>>)
            \/ ~nl.repoOk)
               => /\ nl.resp.ResultType = "error"
                  /\ nl.resp.ErrorMessage # <<>>
                  /\ nl.resp.ConversationId = nl.conversationId


\* the request carried the parameter unparseable, or did not carry it
BadTime(param) == param = <<>> \/ ParseTimeFlexible(param[1]).err

\* a request the endpoint must reject: a bound of the time range is missing or
\* unparseable, the range ends before it starts, or (timeseries) the metric
\* name, the interval or the groupBy is not one the endpoint knows
InvalidInput(r) ==
    \/ BadTime(r.q.startTime)
    \/ BadTime(r.q.endTime)
    \/ ParseTimeFlexible(r.q.endTime[1]).t < ParseTimeFlexible(r.q.startTime[1]).t
    \/ /\ r.endpoint = "timeseries"
       /\ \/ Query(r.q.metricName) \notin {"log_event", "error_event"}
          \/ Query(r.q.interval) \notin
                 {"1 minute", "5 minute", "10 minute", "30 minute", "1 hour", "1 day"}
          \/ (r.q.groupBy # <<>> /\ r.q.groupBy[1] \notin
                 {"level", "component", "error_key", "application", "total"})

\* C19: a query request with invalid input (a missing or unparseable startTime
\* or endTime, endTime before startTime, an unknown metric name, interval or
\* groupBy) is answered with status 400, and status 500 is answered only when
\* the store failed, on the log search endpoint and on the metric endpoints.
C19_ValidationIs400 ==
    http.status # "none" =>
        /\ InvalidInput(http) => http.status = "400"
        /\ http.status = "500" => http.storeFailed

EventsNamed(name) ==
    {i \in DOMAIN extracted.events : extracted.events[i].MetricName = name}

\* the contents of ExtractorEntries that hold "exception", "error", "fail" or
\* "caused by" in some letter case
MatchingContents ==
    {<<"f", "a", "i", "l">>,
     <<"F", "A", "I", "L">>,
     <<"j", "o", "b", " ", "F", "a", "i", "l", "e", "d">>,
     <<"E", "r", "r", "o", "r", ":">>,
     <<"C", "a", "u", "s", "e", "d", " ", "b", "y", ":">>,
     <<"I", "O", "E", "x", "c", "e", "p", "t", "i", "o", "n">>}

\* C20: for a non-nil entry the extractor emits exactly one log_event, tagged
\* with level and component, and with parse_status=failed_or_orphan iff the
\* level is UNKNOWN or the component is UNKNOWN or ORPHAN; exactly one
\* error_event, tagged component, level and error_key=content, iff the level is
\* ERROR or the content matches (exception|error|fail|caused by) in any letter
\* case, and none otherwise; no other event; every event carries the entry's
\* time and application.
C20_ExtractedEvents ==
    (extracted.called /\ extracted.logEntry # <<>>) =>
        LET e == extracted.logEntry[1]
            events == extracted.events
            unparsed == e.Level = "UNKNOWN" \/ e.Component \in {"UNKNOWN", "ORPHAN"}
            isError == e.Level = "ERROR" \/ e.Content \in MatchingContents
        IN  /\ Cardinality(EventsNamed("log_event")) = 1
            /\ \A i \in EventsNamed("log_event") :
                   /\ DOMAIN events[i].Tags =
                          {"level", "component"}
                              \cup (IF unparsed THEN {"parse_status"} ELSE {})
                   /\ events[i].Tags.level = e.Level
                   /\ events[i].Tags.component = e.Component
                   /\ unparsed => events[i].Tags.parse_status = "failed_or_orphan"
            /\ Cardinality(EventsNamed("error_event")) = (IF isError THEN 1 ELSE 0)
            /\ \A i \in EventsNamed("error_event") :
                   events[i].Tags = [component |-> e.Component, level |-> e.Level,
                                     error_key |-> e.Content]
            /\ \A i \in DOMAIN events :
                   /\ events[i].MetricName \in {"log_event", "error_event"}
                   /\ events[i].Time = e.Timestamp
                   /\ events[i].Application = e.Application

\* an orphan line whose content holds "Failed" was extracted: a log_event with
\* parse_status and an error_event, though the level is not ERROR
C20_Witness ==
    /\ extracted.called
    /\ extracted.logEntry # <<>>
    /\ extracted.logEntry[1].Level = "UNKNOWN"
    /\ extracted.logEntry[1].Component = "ORPHAN"
    /\ extracted.logEntry[1].Content = <<"j", "o", "b", " ", "F", "a", "i", "l", "e", "d">>
    /\ Len(extracted.events) = 2

\* C21: LoadState returns the empty mapping and no error when the state file is
\* absent or has zero length, and otherwise exactly the mapping of the last
\* successful SaveState (a load whose read of the file fails is left aside).
C21_SaveLoadIdentity ==
    mgr.last.op = "load" =>
        /\ stateFile.kind \in {"absent", "empty"} =>
               (~mgr.last.err /\ mgr.last.state = EmptyState)
        /\ mgr.saved # <<>> => (~mgr.last.err /\ mgr.last.state = mgr.saved[1])

\* the rows of the table a time-series request asks for: its metric, inside its
\* window, of its applications if it names any, and, when it groups by
\* component, not of the components UNKNOWN and ORPHAN
MatchingEvents(req) ==
    {j \in DOMAIN tsdb.table :
        /\ tsdb.table[j].metric_name = req.MetricName
        /\ req.StartTime <= tsdb.table[j].time
        /\ tsdb.table[j].time < req.EndTime
        /\ (req.Applications = {} \/ tsdb.table[j].application \in req.Applications)
        /\ ~(/\ req.GroupBy = "component"
             /\ tsdb.table[j].tags.component \in {<<(<<"UNKNOWN">>)>>, <<(<<"ORPHAN">>)>>})}

\* the group key of a row: total, or the value of the tag or column the
\* request groups by, <group_by>_NULL standing for a missing one
GroupKey(req, row) ==
    IF req.GroupBy \in {"total", ""} THEN <<"total">>
    ELSE IF req.GroupBy = "application" THEN <<row.application>>
    ELSE IF row.tags[req.GroupBy] = <<>> THEN <<req.GroupBy, "_NULL">>
    ELSE row.tags[req.GroupBy][1]

\* start of the bucket of a row, in epoch milliseconds
BucketOf(req, row) ==
    60000 * (IF req.Interval = "1 minute" THEN row.time ELSE 5 * (row.time \div 5))

\* C22: without sort and limit and with a valid interval, the response of a
\* time-series query holds one series per group key of the matching events (the
\* one series total when the request groups by total or by nothing), every
\* series has exactly one point per bucket holding one of its events, and the
\* value of a point is the number of matching events of that bucket and group.
C22_SeriesCountEvents ==
    (tsdb.last.called /\ ~tsdb.last.resp.err) =>
        LET req == tsdb.last.req
            Series == tsdb.last.resp.Series
            M == MatchingEvents(req)
            In(k, b) == {j \in M : /\ GroupKey(req, tsdb.table[j]) = k
                                   /\ BucketOf(req, tsdb.table[j]) = b}
        IN  /\ DOMAIN Series = {GroupKey(req, tsdb.table[j]) : j \in M}
            /\ \A k \in DOMAIN Series :
                   /\ {Series[k][i].Timestamp : i \in DOMAIN Series[k]}
                          = {BucketOf(req, tsdb.table[j]) :
                                j \in {l \in M : GroupKey(req, tsdb.table[l]) = k}}
                   /\ \A i, l \in DOMAIN Series[k] :
                          Series[k][i].Timestamp = Series[k][l].Timestamp => i = l
                   /\ \A i \in DOMAIN Series[k] :
                          Series[k][i].Value =
                              Cardinality(In(k, Series[k][i].Timestamp))

\* the upper-case spellings of the levels of LevelLists
UpperLevels ==
    {<<>>, <<(<<"E", "R", "R", "O", "R">>)>>,
     <<(<<"E", "R", "R", "O", "R">>), (<<"W", "A", "R", "N">>)>>}

\* C23: SearchLogs rejects a request whose start or end time is zero or whose
\* end is before its start; otherwise the repository is called with page <= 0
\* replaced by 1, a size outside 1..1000 by 500, an empty sort_by by
\* @timestamp, the sort order in lower case and desc unless it is asc or desc,
\* and every level in upper case; the repository pages from (page-1)*size.
C23_SearchNormalized ==
    (search.called /\ search.via = "service") =>
        LET in == search.req
            out == search.repoReq
            rejected == in.StartTime = 0 \/ in.EndTime = 0 \/ in.EndTime < in.StartTime
        IN  /\ rejected <=> search.err
            /\ rejected <=> ~search.repoCalled
            /\ ~rejected =>
                   /\ out.Page = (IF in.Page <= 0 THEN 1 ELSE in.Page)
                   /\ out.Size = (IF in.Size \in 1..1000 THEN in.Size ELSE 500)
                   /\ out.SortBy = (IF in.SortBy = "" THEN "@timestamp" ELSE in.SortBy)
                   /\ out.SortOrder \in {asc, desc}
                   /\ out.SortOrder = asc <=> in.SortOrder \in {asc, <<"A", "S", "C">>}
                   /\ out.Levels \in UpperLevels
                   /\ Len(out.Levels) = Len(in.Levels)
                   /\ out.StartTime = in.StartTime /\ out.EndTime = in.EndTime
                   /\ search.es.From = (out.Page - 1) * out.Size
                   /\ search.es.Size = out.Size

\* a search for page 3 of size 20, order "ASC", levels error and Warn, with no
\* sort field reached the repository
C23_Witness ==
    /\ search.called /\ search.via = "service" /\ search.repoCalled
    /\ search.req.Page = 3 /\ search.req.Size = 20
    /\ search.req.SortBy = "" /\ search.req.SortOrder = <<"A", "S", "C">>
    /\ Len(search.req.Levels) = 2
    /\ search.es.From = 40

\* C25: the sort clause is on @timestamp unchanged, on <field>.keyword for
\* level, component, application and source_file, and on any other field as
\* given; total_count of the response is the hit total the index reports.
C25_SortFieldRewritten ==
    search.repoCalled =>
        /\ search.es.Sort.field =
               (CASE search.repoReq.SortBy = "@timestamp" -> <<"@timestamp">>
                  [] search.repoReq.SortBy = "level" -> <<"level", ".keyword">>
                  [] search.repoReq.SortBy = "component" -> <<"component", ".keyword">>
                  [] search.repoReq.SortBy = "application" -> <<"application", ".keyword">>
                  [] search.repoReq.SortBy = "source_file" -> <<"source_file", ".keyword">>
                  [] OTHER -> <<search.repoReq.SortBy>>)
        /\ search.resp.TotalCount = search.total

\* a search sorted by component found 7 hits
C25_Witness ==
    /\ search.repoCalled
    /\ search.req.SortBy = "component"
    /\ search.es.Sort.field = <<"component", ".keyword">>
    /\ search.total = 7
    /\ search.resp.TotalCount = 7

Opens == {i \in DOMAIN llm.text : llm.text[i] = "{"}
Closes == {i \in DOMAIN llm.text : llm.text[i] = "}"}

\* the text from its first { to its last }, <<>> when it has none
Braced ==
    IF Opens = {} \/ Closes = {} THEN <<>>
    ELSE LET first == CHOOSE i \in Opens : \A j \in Opens : i <= j
             last == CHOOSE i \in Closes : \A j \in Closes : j <= i
         IN  IF last < first THEN <<>> ELSE SubSeq(llm.text, first, last)

\* C24: the extractor returns the text from the first { to the last } when that
\* is a JSON object, whatever surrounds it, and nothing otherwise; when nothing
\* is extracted, or the object has an unknown field or a field of another
\* type, the analysis fails and the orchestrator answers with an error
\* response and persists no turn.
C24_ExtractedJson ==
    llm.called =>
        /\ llm.cleaned = (IF IsJsonObject(Braced) THEN Braced ELSE <<>>)
        /\ (\/ llm.cleaned = <<>>
            \/ \E i \in DOMAIN llm.cleaned : llm.cleaned[i] \in {"u", "t"})
               => /\ llm.err
                  /\ llm.resp.ResultType = "error"
                  /\ llm.resp.ErrorMessage # <<>>
                  /\ llm.turns = 0

\* an object wrapped in prose was extracted and decoded, and the two turns
\* of the request were persisted
C24_Witness ==
    /\ llm.called
    /\ llm.text = <<"p", "{", "k", "}", "p">>
    /\ llm.cleaned = <<"{", "k", "}">>
    /\ ~llm.err
    /\ llm.turns = 2

----------------------------------------------------------------------------
\* C26: every entry read from a file carries as Application the name of the
\* file's parent directory when that name begins with application_, and
\* unknown_application otherwise; the messages built from the entries of one
\* file all have that application as their key.
ApplicationOf(filePath) ==
    IF /\ Len(filePath.dir) >= 2
       /\ filePath.dir[1] = "application"
       /\ filePath.dir[2] = "_"
    THEN filePath.dir
    ELSE <<"unknown_application">>

C26_ApplicationIsParentDir ==
    \A p \in DOMAIN cyc.reads :
        LET entries == cyc.reads[p].entries
        IN  \A j \in DOMAIN entries :
                /\ entries[j].SourceFile = p
                /\ entries[j].Application = ApplicationOf(p)
                /\ sendBatch(entries)[j].Key = <<ApplicationOf(p)>>
                /\ sendBatch(entries)[j].Key = sendBatch(entries)[1].Key

\* a cycle read a header entry and an orphan line from a file under
\* application_1 and an entry from a file under applicationx
C26_Witness ==
    /\ DOMAIN cyc.reads = {File1, File2}
    /\ \E j, k \in DOMAIN cyc.reads[File1].entries :
           /\ cyc.reads[File1].entries[j].Component = "ORPHAN"
           /\ cyc.reads[File1].entries[k].Component = "comp"
    /\ cyc.reads[File2].entries # <<>>
    /\ cyc.reads[File2].entries[1].Application = <<"unknown_application">>

----------------------------------------------------------------------------
\* C27: within a cycle SaveState is entered at most once, and only when every
\* discovered file has been read and every entry read has been handed to the
\* producer; until the rename at its end the state file holds what the cycle
\* loaded, so a crash in the middle of a cycle leaves the offsets on disk
\* at their value before the cycle.
Stage(at) ==
    CASE at = "idle" -> 0
      [] at = "load" -> 1
      [] at = "files" -> 2
      [] at = "save" -> 3
      [] at = "write" -> 4
      [] at = "rename" -> 5
      [] OTHER -> 6

InSaveState == {"save", "write", "rename"}

C27_SaveOnceAtEnd ==
    /\ [](\A i \in Invocations :
              /\ pc[i] = "files" =>
                     LoadState(stateFile, FALSE) = [state |-> cyc.currentState, err |-> FALSE]
              /\ pc[i] \in InSaveState =>
                     /\ cyc.fileIdx > Len(findLogFiles)
                     /\ DOMAIN cyc.reads = {findLogFiles[k] : k \in DOMAIN findLogFiles}
                     /\ \A f \in DOMAIN cyc.reads :
                            ~cyc.reads[f].err =>
                                RawPositions(cyc.reads[f].entries, f) \subseteq covered[f])
    /\ [][/\ \A i \in Invocations :
                 \/ pc'[i] = "idle"
                 \/ Stage(pc'[i]) >= Stage(pc[i])
          /\ stateFile' # stateFile =>
                 \E i \in Invocations : pc[i] = "rename" /\ pc'[i] = "done"
          /\ (\A i \in Invocations : pc'[i] = "idle") => stateFile' = stateFile]_vars

\* the middle of a cycle: one file has been read and its offset advanced in
\* memory, while the state file holds the offsets an earlier cycle saved
C27_Witness ==
    /\ \E i \in Invocations : pc[i] = "files"
    /\ cyc.fileIdx = 2
    /\ cyc.newState # cyc.currentState
    /\ stateFile = Json(Marshal(cyc.currentState))

----------------------------------------------------------------------------
\* C28: an offset is committed only for a message that is in the index or
\* could not be decoded; in particular a message accumulated by an iteration
\* that ended with a fetch error or a cancellation (and so was never passed
\* to StoreLogs) is not covered by a later commit before it is indexed.
C28_CommittedWereStored ==
    \A o \in 1..committed :
        (topic[o] = "json" /\ o \notin storeFailed) => o \in indexed

----------------------------------------------------------------------------
\* C29: the stored offset of a file never exceeds the file's size, and a
\* cycle that follows a completed cycle over unchanged files reads every
\* file from its stored offset, gets no entry from it and saves the offsets
\* it loaded.
C29_UnchangedFilesQuiet ==
    /\ \A f \in Paths : Get(StoredOffsets, f) <= Len(files[f])
    /\ DOMAIN cyc.currentState = Paths =>
           /\ \A f \in DOMAIN cyc.reads :
                  /\ cyc.reads[f].from = Get(cyc.currentState, f)
                  /\ cyc.reads[f].entries = <<>>
           /\ pc["tick1"] = "done" => StoredOffsets = cyc.currentState

----------------------------------------------------------------------------
\* C30: Run has returned only if its context has been cancelled: after a
\* processBatch error of any other kind, a timeout reported by the broker
\* or the store included, the loop goes on.
C30_ReturnsOnlyWhenCancelled ==
    cpc = "stopped" => ctxDone

\* the other half of C30, under SpecConsumeFair: once the context is
\* cancelled Run returns
CancelledRunReturns == ctxDone ~> (cpc = "stopped")

----------------------------------------------------------------------------
\* C31: an iteration makes at most one CommitMessages call, on the handles
\* of all the messages it fetched; when that call fails after StoreLogs
\* succeeded, the iteration returns the commit error, the offsets of the
\* batch stay uncommitted and the documents of its decodable messages are in
\* the search index.
CommitCalls == {k \in DOMAIN calls : calls[k].op = "CommitMessages"}

C31_CommitFailureKeepsDocuments ==
    /\ Cardinality(CommitCalls) <= 1
    /\ \A k \in CommitCalls :
           /\ calls[k].msgs = batch.originalMessages
           /\ calls[k].ok => committed >= MaxOf(Range(batch.originalMessages))
           /\ ~calls[k].ok =>
                  /\ lastErr \in {"commit", "deadline"}
                  /\ \A o \in Range(batch.originalMessages) :
                         /\ o > committed
                         /\ topic[o] = "json" => o \in searchIndex

----------------------------------------------------------------------------
\* C32: the batches a cycle hands to sendBatch hold, put end to end, the
\* entries of the files read without error so far, in file order and line
\* order, each entry once: between two files the accumulator holds fewer
\* than BatchSize entries and is exactly what has been read and not yet
\* dispatched, every batch sent inside the loop has at least BatchSize
\* entries, and when SaveState begins nothing is left undispatched.
RECURSIVE Flatten(_)
Flatten(seqs) ==
    IF seqs = <<>> THEN <<>> ELSE Head(seqs) \o Flatten(Tail(seqs))

EntriesRead(k) ==
    Flatten([j \in 1..k |->
                IF cyc.reads[findLogFiles[j]].err
                THEN <<>>
                ELSE cyc.reads[findLogFiles[j]].entries])

----------------------------------------------------------------------------
\* C33: when a cycle reads a file from a line boundary (the stored offset is
\* the end of a terminated line), the entries of the part before the boundary
\* followed by the entries the cycle emits equal the entries of the whole
\* content read at once; in particular a continuation line appended after
\* its header was read stays in the header's entry.
EntriesOf(data, f) ==
    StitchFrom(ScanLines(data), 1, NoEntry, <<>>, 0, f).entries

C33_SplitIndependent ==
    \A f \in DOMAIN cyc.reads :
        LET rd == cyc.reads[f]
        IN  (/\ ~rd.err
             /\ rd.from > 0
             /\ rd.from <= Len(files[f])
             /\ files[f][rd.from] = NL) =>
                EntriesOf(SubSeq(files[f], 1, rd.from), f) \o rd.entries
                    = EntriesOf(files[f], f)

\* C34: whatever the interleaving of the requests of one conversation, its
\* stored history is made of adjacent (user, model) pairs, each pair written
\* by one request: a turn at an odd position is a user turn, the turn after
\* it (once written) is the model turn of the same request, and no turn of
\* another request stands between the two
C34_TurnsPairedPerRequest ==
    \A c \in DOMAIN convos :
        /\ Len(handlers.writers[c]) = Len(convos[c])
        /\ \A k \in DOMAIN convos[c] :
               /\ convos[c][k].Role = IF k % 2 = 1 THEN "user" ELSE "model"
               /\ k % 2 = 0 => handlers.writers[c][k] = handlers.writers[c][k - 1]

\* C34: the history of a conversation is only appended to
C34_HistoryOnlyAppended ==
    [][\A c \in DOMAIN convos :
           /\ c \in DOMAIN convos'
           /\ Len(convos'[c]) >= Len(convos[c])
           /\ SubSeq(convos'[c], 1, Len(convos[c])) = convos[c]]_vars

\* C35: a read that saw ctx cancelled at the k-th line it scanned returns the
\* error with the entries of the k - 1 lines before it, the entry under
\* construction included (their raw texts joined are those lines joined), and
\* the offset advanced over exactly those k - 1 lines; the cycle keeps the
\* offset it loaded for the file and hands none of the file's entries to
\* the producer.
C35_CancelledReadDropped ==
    \A f \in DOMAIN cyc.reads :
        LET rd == cyc.reads[f]
            all == ScanLines(SubSeq(files[f], rd.from + 1, Len(files[f])))
        IN  "observedAt" \in DOMAIN rd =>
                LET consumed == SubSeq(all, 1, rd.observedAt - 1)
                IN  /\ rd.err
                    /\ rd.observedAt <= Len(all)
                    /\ JoinNL([j \in DOMAIN rd.entries |-> rd.entries[j].Raw]) = JoinNL(consumed)
                    /\ consumed # <<>> => rd.entries # <<>>
                    /\ rd.newOffset = rd.from + LineBytes(consumed)
                    /\ Get(cyc.newState, f) = Get(cyc.currentState, f)
                    /\ \A b \in DOMAIN cyc.batches :
                           f \notin SourceFiles(cyc.batches[b])
                    /\ f \notin SourceFiles(cyc.allLogs)

\* a cycle whose ctx was seen cancelled at the second line of File1, when the
\* entry of the header line before it was under construction, and that went
\* on to save the state
C35_Witness ==
    /\ pc["tick1"] = "save"
    /\ File1 \in DOMAIN cyc.reads
    /\ "observedAt" \in DOMAIN cyc.reads[File1]
    /\ cyc.reads[File1].observedAt = 2
    /\ Len(cyc.reads[File1].entries) = 1
    /\ cyc.reads[File1].entries[1].Component = "comp"
    /\ cyc.reads[File1].newOffset > Get(cyc.newState, File1)

\* C36: a time-series request answered with data asked for a known interval
\* and a known grouping, on the HTTP path and on the natural-language path
\* alike: an unknown interval or an unknown group dimension is answered with
\* an error, never with the data of another grouping.
C36_UnknownGroupingRefused ==
    tsdb.served.answer = "data" =>
        /\ tsdb.served.interval \in allowedIntervals
        /\ tsdb.served.groupBy \in allowedGroupBy

\* C38: a summary query of the repository in which the count of log_event or
\* the count of error_event failed returns an error; it never returns a
\* response, whose count for the failed query would be 0.
C38_SummaryFailureReported ==
    (tsdb.summary.called /\ (tsdb.summary.logFails \/ tsdb.summary.errorFails)) =>
        tsdb.summary.resp.err

\* C37: the wait bound of the consumer is the configured max batch wait, in
\* the same unit, unscaled and without overflow; every fetch is given the
\* time that remains of it since the batch began; and a batch build ends
\* with BatchSize messages or when the configured wait has elapsed.
C37_WaitBoundAsConfigured ==
    /\ wait.maxWaitTime = wait.configured
    /\ \A k \in DOMAIN wait.fetches :
           wait.fetches[k].timeout = Sub64(wait.configured, wait.fetches[k].elapsed)
    /\ wait.done => (wait.held = BatchSize \/ ~Less64(wait.elapsed, wait.configured))

====
